---- MODULE Spec2Model ----
(***************************************************************************)
(* State-machine model of the police-records browser front-end:            *)
(*   - CaseList   (src/web/src/components/ui/case/CaseList.tsx):           *)
(*       initial load, debounced free-text search with timeout retry       *)
(*   - CaseProfile (src/web/src/components/ui/case/CaseProfile.tsx):       *)
(*       per-case document search (fetchDocumentMatches)                   *)
(*   - OfficerList / Dashboard / page-level drill-down:                    *)
(*       officer aggregation and employment/post resolution                *)
(*   - Dashboard (src/web/src/components/ui/dashboard/Dashboard.tsx):      *)
(*       the recent-incidents list                                         *)
(*   - the page (src/web/src/app/page.tsx): selections, Back, tabs and     *)
(*       the two drill-downs                                               *)
(*                                                                         *)
(* Text (search terms, page contents) is a sequence of one-character       *)
(* strings, so that length, split, toLowerCase and includes are computed   *)
(* the way the JavaScript code computes them.  Dates are ISO date strings  *)
(* in the program, compared as strings; they are modelled by integers in   *)
(* the same order (1 = 2018-01-01, 2 = 2020-01-01, 3 = 2020-01-02).        *)
(***************************************************************************)
EXTENDS Integers, Sequences, FiniteSets, TLC

VARIABLES
    \* ---- the datastore (external tables, read-only) and the environment
    documents,      \* table document_metadata, in the order the datastore returns it
    posts,          \* table post, in the order the datastore returns it
    docText,        \* table document_text (one row per page of a scanned document)
    configured,     \* NEXT_PUBLIC_SUPABASE_URL and _ANON_KEY are both present
    \* ---- which component instance is mounted
    view,           \* "roster" (OfficerList), "list" (CaseList), "profile" (CaseProfile),
                    \* "officer" (OfficerProfile)
    \* ---- CaseList component state (useState hooks, CaseList.tsx:25-48)
    cases, searchTerm, loading, searching, error, textMatches,
    timers,         \* pending lodash debounce timers, each holding its last argument
    calls,          \* searchDocuments invocations started by the debounce, in order
    filters,        \* [incidentType, year, source], each NULL or the selected value
    activeFilterDropdown, \* NULL, "type", "year" or "source"
    sortField, sortDirection,
    currentPage, itemsPerPage,
    \* ---- history of the mounted CaseList instance (not program state)
    matchesFrom,    \* index in calls of the invocation that last set textMatches (0: none)
    rapidTyped,     \* k >= 0: the terms entered so far are the first k terms of
                    \* RapidInput, each entered while the debounce timer of the
                    \* previous one was still pending; -1: anything else
    queries,        \* number of text-search queries issued, per term
    metaQueries,    \* number of metadata-join queries issued by searchDocuments
    \* ---- CaseProfile component state (CaseProfile.tsx:616-619)
    profTerm,       \* the searchTerm prop
    documentMatches, isLoading, errorMessage,
    profPc,         \* position of fetchDocumentMatches: "idle","meta","summaries","text","pdf","done"
    profDocs,       \* caseDocuments / searchResults held by the running fetchDocumentMatches
    profQueries,    \* number of datastore queries issued by fetchDocumentMatches
    profCase,       \* the case prop (its incident_id; NULL: not mounted)
    \* ---- officer views
    op,             \* the officer-side operation that runs: "none", "roster" (loadData of
                    \* OfficerList.tsx), "legacy" (loadData of the older OfficerList,
                    \* part_005), "drill" (handleOfficerFromCase)
    opPc,           \* its position: "idle","docs","posts","done"; "failed": the drill-down
                    \* has left through its catch block
    opUid,          \* argument of handleOfficerFromCase
    fetched,        \* rows held by the running operation: [docs, posts]
    officers,       \* OfficerList / Dashboard state: the processed officer aggregates
    selectedOfficer,\* page state: the aggregate built by handleOfficerFromCase (NULL: none);
                    \* in the page specification, the uid of the selected officer
    offError,       \* error state of the officer view (NULL: none)
    \* ---- page state (page.tsx:15-17)
    activeView,     \* the tab shown when nothing is selected: "officers" or "cases"
    selectedCase,   \* the selected case (its incident_id; NULL: none)
    drills,         \* the drill-down invocations of the page (page.tsx:41-120), in
                    \* order: [handler, arg, outcome, pc], pc "query" while the query
                    \* is in flight; outcome is the answer the datastore will give
    \* ---- Dashboard state (Dashboard.tsx)
    recentIncidents \* the recent-incidents list

NULL == "null"

searchVars  == <<cases, searchTerm, loading, searching, error, textMatches, timers, calls,
                 matchesFrom, rapidTyped, queries, metaQueries>>
pageVars    == <<filters, activeFilterDropdown, sortField, sortDirection, currentPage,
                 itemsPerPage>>
listVars    == <<cases, searchTerm, loading, searching, error, textMatches, timers, calls,
                 matchesFrom, rapidTyped, queries, metaQueries, pageVars>>
profileVars == <<profTerm, documentMatches, isLoading, errorMessage, profPc, profDocs,
                 profQueries, profCase>>
rosterVars  == <<op, opPc, opUid, fetched, officers, selectedOfficer, offError>>
storeVars   == <<documents, posts, docText, configured>>
navVars     == <<activeView, selectedCase, drills>>
dashVars    == <<recentIncidents>>
vars        == <<storeVars, navVars, dashVars, view, listVars, profileVars, rosterVars>>

-----------------------------------------------------------------------------
(* Text helpers: JavaScript string operations on sequences of characters.  *)

\* String.prototype.toLowerCase, on the alphabet the model uses.
LowerCh(c) ==
    CASE c = "A" -> "a" [] c = "B" -> "b" [] c = "C" -> "c" [] c = "D" -> "d"
      [] c = "E" -> "e" [] c = "K" -> "k" [] c = "Q" -> "q"
      [] OTHER -> c

toLowerCase(s) == [i \in 1..Len(s) |-> LowerCh(s[i])]

\* String.prototype.includes: t occurs in s as a contiguous substring.
includes(s, t) ==
    \E i \in 0..(Len(s) - Len(t)) : SubSeq(s, i + 1, i + Len(t)) = t

\* s.split(' '): split at every single space (adjacent spaces give empty pieces).
RECURSIVE splitSpace(_)
splitSpace(s) ==
    IF \A i \in 1..Len(s) : s[i] # " "
    THEN <<s>>
    ELSE LET k == CHOOSE i \in 1..Len(s) : s[i] = " " /\ \A j \in 1..(i - 1) : s[j] # " "
         IN  <<SubSeq(s, 1, k - 1)>> \o splitSpace(SubSeq(s, k + 1, Len(s)))

IsWs(c) == c \in {" ", "\n", "\t"}

\* s.split(/\s+/): split at every maximal run of whitespace.
RECURSIVE splitWs(_)
splitWs(s) ==
    IF \A i \in 1..Len(s) : ~IsWs(s[i])
    THEN <<s>>
    ELSE LET k == CHOOSE i \in 1..Len(s) : IsWs(s[i]) /\ \A j \in 1..(i - 1) : ~IsWs(s[j])
             m == CHOOSE i \in k..Len(s) :
                      /\ \A j \in k..i : IsWs(s[j])
                      /\ (i = Len(s) \/ ~IsWs(s[i + 1]))
         IN  <<SubSeq(s, 1, k - 1)>> \o splitWs(SubSeq(s, m + 1, Len(s)))

\* words.join(' ')
RECURSIVE joinSpace(_)
joinSpace(ws) ==
    IF Len(ws) = 0 THEN <<>>
    ELSE IF Len(ws) = 1 THEN ws[1]
    ELSE ws[1] \o <<" ">> \o joinSpace(Tail(ws))

Range(seq) == {seq[i] : i \in 1..Len(seq)}

Min2(a, b) == IF a < b THEN a ELSE b
Max2(a, b) == IF a > b THEN a ELSE b

-----------------------------------------------------------------------------
(* The datastore seen by the case views.  Search terms the user may type.  *)

Term_ab   == <<"a", "b">>
Term_abc  == <<"a", "b", "c">>
Term_abcd == <<"a", "b", "c", "d">>
Terms     == {<<>>, Term_ab, Term_abc, Term_abcd}

\* The input of the rapid-typing scenario, and the empty query log.
RapidInput == <<Term_ab, Term_abc, Term_abcd>>
NoQueries  == [t \in Terms |-> 0]

\* Rows of table document_text seen by the case views.
DocText ==
    << [sha1 |-> "s1", page_number |-> 1,
        page_content |-> <<"x", " ", "A", "B", "C", "D">>] >>

\* Rows of table document_metadata used by the case views: one row per
\* (officer x incident x source document).
CaseDocuments ==
    << [uid |-> "u1", incident_id |-> "i1", post_uid |-> NULL, officer_name |-> "Ann",
        sha1 |-> "s1", incident_type |-> "firearm", incident_date |-> 2,
        incident_year |-> "2020", source |-> "KQED"],
       [uid |-> "u2", incident_id |-> "i1", post_uid |-> NULL, officer_name |-> "Bob",
        sha1 |-> "s1", incident_type |-> "firearm", incident_date |-> 2,
        incident_year |-> "2020", source |-> "KQED"],
       [uid |-> "u1", incident_id |-> "i2", post_uid |-> NULL, officer_name |-> "Ann",
        sha1 |-> "s2", incident_type |-> "dishonesty", incident_date |-> 1,
        incident_year |-> "2018", source |-> "ABC7"] >>

\* Sub-lists of a table: the rows at the positions in S, in table order.
RowsAt(table, S) ==
    LET idx == [i \in 1..Len(table) |-> i]
        keep(i) == i \in S
        kept == SelectSeq(idx, keep)
    IN  [j \in 1..Len(kept) |-> table[kept[j]]]

SubLists(table) == {RowsAt(table, S) : S \in SUBSET (1..Len(table))}

\* _.groupBy(rows, key) followed by Object.entries: the distinct keys in order
\* of first appearance (string keys that are not array indices keep insertion
\* order), each with its rows in input order.
\* A key list with one key per row, repeated keys included.
GroupKeysPerRow(rows, key) == [i \in 1..Len(rows) |-> rows[i][key]]

GroupKeys(rows, key) ==
    LET firstAt(i) == \A j \in 1..(i - 1) : rows[j][key] # rows[i][key]
        idx == [i \in 1..Len(rows) |-> i]
        firsts == SelectSeq(idx, firstAt)
    IN  [j \in 1..Len(firsts) |-> rows[firsts[j]][key]]

\* A grouping that keeps only the first row of each group.
GroupOfFirstRow(rows, key, k) ==
    LET hasKey(r) == r[key] = k
        group == SelectSeq(rows, hasKey)
    IN  IF Len(group) > 1 THEN <<group[1]>> ELSE group

GroupOf(rows, key, k) ==
    LET hasKey(r) == r[key] = k
    IN  SelectSeq(rows, hasKey)

-----------------------------------------------------------------------------
(* CaseList: initial load.                                                 *)

EmptyMap == <<>>

\* The initial filters state, lines 32-40.
NoFilters == [incidentType |-> NULL, year |-> NULL, source |-> NULL]

\* loadInitialData, lines 164-180: one case per incident_id, one officer entry
\* per row of the group.
ProcessedCases(rows) ==
    LET keys == GroupKeys(rows, "incident_id")
    IN  [j \in 1..Len(keys) |->
            LET incidents == GroupOf(rows, "incident_id", keys[j])
            IN  [incident_id |-> keys[j],
                 incident_type |-> incidents[1].incident_type,
                 incident_date |-> incidents[1].incident_date,
                 incident_year |-> incidents[1].incident_year,
                 source |-> incidents[1].source,
                 officers |-> [i \in 1..Len(incidents) |->
                                 [uid |-> incidents[i].uid,
                                  name |-> incidents[i].officer_name]]]]

\* State of a CaseList instance right after it is mounted (useState initial
\* values; the mount effect has started loadInitialData).
ListMounted ==
    /\ cases = <<>> /\ searchTerm = <<>> /\ loading = TRUE /\ searching = FALSE
    /\ error = NULL /\ textMatches = EmptyMap /\ timers = {} /\ calls = <<>>
    /\ matchesFrom = 0 /\ rapidTyped = 0 /\ queries = NoQueries
    /\ metaQueries = 0
    /\ filters = NoFilters /\ activeFilterDropdown = NULL
    /\ sortField = "incident_date" /\ sortDirection = "desc"
    /\ currentPage = 1 /\ itemsPerPage = 10

\* The CaseList state is replaced: a new instance is mounted (isLoading
\* TRUE, the mount effect starts loadInitialData) or the instance is unmounted
\* and its state dropped (isLoading FALSE).
ListReset(isMounted) ==
    /\ cases' = <<>> /\ searchTerm' = <<>> /\ loading' = isMounted /\ searching' = FALSE
    /\ error' = NULL /\ textMatches' = EmptyMap /\ timers' = {} /\ calls' = <<>>
    /\ matchesFrom' = 0 /\ rapidTyped' = 0 /\ queries' = NoQueries
    /\ metaQueries' = 0
    /\ filters' = NoFilters /\ activeFilterDropdown' = NULL
    /\ sortField' = "incident_date" /\ sortDirection' = "desc"
    /\ currentPage' = 1 /\ itemsPerPage' = 10

ProfileUnmounted ==
    /\ profTerm = <<>> /\ documentMatches = <<>> /\ isLoading = FALSE
    /\ errorMessage = NULL /\ profPc = "idle" /\ profDocs = <<>> /\ profQueries = 0
    /\ profCase = NULL

RosterIdle ==
    /\ op = "none" /\ opPc = "idle" /\ opUid = NULL /\ fetched = <<>>
    /\ officers = <<>> /\ selectedOfficer = NULL /\ offError = NULL
    /\ recentIncidents = <<>>

\* The page state under which the page renders the mounted component
\* (page.tsx:122-170), with no drill-down in flight.
PageShowsView ==
    /\ activeView = (IF view \in {"list", "profile"} THEN "cases" ELSE "officers")
    /\ selectedCase = profCase
    /\ drills = <<>>

\* loadInitialData (the mount effect), to its end: initSupabase throws without
\* credentials; the select either fails or returns the table.
LoadInitialData ==
    /\ view = "list" /\ loading
    /\ \E ok \in BOOLEAN :
          IF ~configured
          THEN /\ error' = "Supabase credentials are not configured"
               /\ cases' = cases
          ELSE IF ok
          THEN /\ cases' = ProcessedCases(documents)
               /\ error' = error
          ELSE /\ error' = "Failed to load case data"
               /\ cases' = cases
    /\ loading' = FALSE
    /\ UNCHANGED <<searchTerm, searching, textMatches, timers, calls, matchesFrom,
                   rapidTyped, queries, metaQueries>>
    /\ UNCHANGED <<storeVars, navVars, dashVars, view, pageVars, profileVars, rosterVars>>

-----------------------------------------------------------------------------
(* CaseList: debounced free-text search (searchDocuments, lines 61-149).   *)

MinTermLength == 3          \* term.length < 3
MaxRetries    == 2          \* retryCount < 2
ContextBefore == 5          \* termIndex - 5
ContextAfter  == 6          \* termIndex + 6
TimeoutCode   == "57014"
ErrorCodes    == {TimeoutCode, "42601"}

\* Bounds of the exploration.
MaxSearches == 2            \* debounce firings followed per mounted CaseList

\* debounced.cancel(): the pending timer, if any, is cleared.
Cancel(ts) == {}

\* debounced(t) of _.debounce(searchDocuments, 300): the pending timer is
\* restarted and its argument replaced, so one timer is pending, for t.
Debounced(ts, t) == {t}

\* A plain setTimeout per call, with no cancellation.
SearchEffectNoDebounce(ts, t) == IF t # <<>> THEN ts \cup {t} ELSE ts

\* The search effect on a change of searchTerm, lines 206-215: the cleanup of
\* the previous run cancels the pending call, then a non-empty term is handed
\* to the debounced function.
SearchEffect(ts, t) ==
    IF t # <<>> THEN Debounced(Cancel(ts), t) ELSE Cancel(ts)

\* Guard of searchDocuments accepting terms one character shorter.
IsShortOffByOne(term) == Len(term) < MinTermLength - 1

\* if (!term || term.length < 3), lines 62 and 665
IsShort(term) == Len(term) < MinTermLength

\* Retrying on every error code.
ShouldRetryAnyCode(code, retryCount) == retryCount < MaxRetries

\* searchError.code === '57014' && retryCount < 2, line 83
ShouldRetry(code, retryCount) == code = TimeoutCode /\ retryCount < MaxRetries

\* term.split(' ').map(word => `${word}:*`).join(' & '), line 71
searchPhrase(term) ==
    LET ws == splitSpace(term)
        tagged == [i \in 1..Len(ws) |-> ws[i] \o <<":", "*">>]
        RECURSIVE joinAmp(_)
        joinAmp(xs) == IF Len(xs) = 0 THEN <<>>
                       ELSE IF Len(xs) = 1 THEN xs[1]
                       ELSE xs[1] \o <<" ", "&", " ">> \o joinAmp(Tail(xs))
    IN  joinAmp(tagged)

\* Lines 118-128: the words around the first word containing the term
\* (case-insensitively), followed by '...'; NULL when no word contains it.
ContextWindow(content, term) ==
    LET words == splitWs(content)
        lt == toLowerCase(term)
        hit(w) == includes(toLowerCase(w), lt)
        \* words.findIndex(...): the first index whose word hits, -1 when none
        termIndex == IF \E i \in 1..Len(words) : hit(words[i])
                     THEN (CHOOSE i \in 1..Len(words) :
                              hit(words[i]) /\ \A j \in 1..(i - 1) : ~hit(words[j])) - 1
                     ELSE -1
    IN  IF termIndex = -1 THEN NULL
        ELSE LET start == Max2(0, termIndex - ContextBefore)
                 end == Min2(Len(words), termIndex + ContextAfter)
             IN  joinSpace(SubSeq(words, start + 1, end)) \o <<".", ".", ".">>

\* metadataMap.get(sha1), lines 108-110 and 115: a Map built from [sha1,
\* incident_id] pairs keeps the last pair of each sha1.
MetaIncident(metadata, sha1) ==
    LET at == {i \in 1..Len(metadata) : metadata[i].sha1 = sha1}
    IN  IF at = {} THEN NULL
        ELSE metadata[CHOOSE i \in at : \A j \in at : j <= i].incident_id

\* Lines 113-140: the matches Map, from incident_id to its matches in the
\* order of the search results.
BuildMatches(term, searchResults, metadata) ==
    LET usable(r) == /\ MetaIncident(metadata, r.sha1) # NULL
                     /\ ContextWindow(r.page_content, term) # NULL
        kept == SelectSeq(searchResults, usable)
        ids == {MetaIncident(metadata, kept[i].sha1) : i \in 1..Len(kept)}
    IN  [id \in ids |->
            LET mine(r) == MetaIncident(metadata, r.sha1) = id
                rs == SelectSeq(kept, mine)
            IN  [j \in 1..Len(rs) |->
                    [text |-> ContextWindow(rs[j].page_content, term),
                     pageNumber |-> rs[j].page_number,
                     sha1 |-> rs[j].sha1]]]

\* Possible answers to .in('sha1', uniqueSha1s).limit(uniqueSha1s.length),
\* lines 99-103: the rows with one of the sha1s, cut to the limit; which rows
\* survive the cut is the datastore's choice.
MetadataAnswers(table, sha1s) ==
    LET at == {i \in 1..Len(table) : table[i].sha1 \in sha1s}
        n == Min2(Cardinality(sha1s), Cardinality(at))
    IN  {RowsAt(table, S) : S \in {T \in SUBSET at : Cardinality(T) = n}}

\* A searchDocuments invocation: its term, the retryCount of its current
\* attempt, its position (stage "text": text search in flight, "meta":
\* metadata join in flight, "done") and the rows it holds; lastCode (the code of
\* its last text-search error) and outcome record how it went.
NewCall(t, st, oc) ==
    [term |-> t, retryCount |-> 0, stage |-> st, hits |-> <<>>,
     lastCode |-> NULL, outcome |-> oc]

\* The search input's onChange (lines 601-604) and the search effect it
\* triggers (lines 206-215).  The input is rendered only when the view is
\* neither loading nor in the error state (lines 575-581).
ChangeTerm(t) ==
    /\ view = "list" /\ ~loading /\ error = NULL
    /\ t # searchTerm
    /\ searchTerm' = t
    /\ timers' = SearchEffect(timers, t)
    /\ IF t = <<>>
       THEN textMatches' = EmptyMap /\ matchesFrom' = 0
       ELSE UNCHANGED <<textMatches, matchesFrom>>
    /\ rapidTyped' = IF /\ rapidTyped \in 0..(Len(RapidInput) - 1)
                        /\ t = RapidInput[rapidTyped + 1]
                        /\ (rapidTyped = 0 \/ timers # {})
                     THEN rapidTyped + 1
                     ELSE -1
    /\ currentPage' = 1
    /\ UNCHANGED <<cases, loading, searching, error, calls, queries, metaQueries>>
    /\ UNCHANGED <<filters, activeFilterDropdown, sortField, sortDirection, itemsPerPage>>
    /\ UNCHANGED <<storeVars, navVars, dashVars, view, profileVars, rosterVars>>

\* The debounce timer expires and calls searchDocuments(t), which runs to its
\* first await (lines 61-80): a short term clears the matches and returns;
\* otherwise the text-search query is issued.
DebounceFire(t) ==
    /\ view = "list"
    /\ t \in timers
    /\ Len(calls) < MaxSearches
    /\ timers' = timers \ {t}
    /\ IF IsShort(t)
       THEN /\ textMatches' = EmptyMap
            /\ matchesFrom' = 0
            /\ searching' = FALSE
            /\ calls' = Append(calls, NewCall(t, "done", "short"))
            /\ UNCHANGED <<error, queries>>
       ELSE IF ~configured
       THEN /\ searching' = FALSE
            /\ error' = "Supabase credentials are not configured"
            /\ calls' = Append(calls, NewCall(t, "done", "configError"))
            /\ UNCHANGED <<textMatches, matchesFrom, queries>>
       ELSE /\ searching' = TRUE
            /\ queries' = [queries EXCEPT ![t] = @ + 1]
            /\ calls' = Append(calls, NewCall(t, "text", "pending"))
            /\ UNCHANGED <<textMatches, matchesFrom, error>>
    /\ UNCHANGED <<cases, searchTerm, loading, rapidTyped, metaQueries>>
    /\ UNCHANGED <<storeVars, navVars, dashVars, view, pageVars, profileVars, rosterVars>>

\* The text-search query of invocation i fails with an error code (lines
\* 82-89, 143-148).  A retry sets searching false (85), calls searchDocuments
\* again, which sets it true (68) and issues the query, and then the caller's
\* finally sets it false (147), all before the next render.
TextSearchError(i, code) ==
    /\ view = "list"
    /\ i \in 1..Len(calls) /\ calls[i].stage = "text"
    /\ searching' = FALSE
    /\ IF ShouldRetry(code, calls[i].retryCount)
       THEN /\ calls' = [calls EXCEPT ![i].retryCount = @ + 1, ![i].lastCode = code]
            /\ queries' = [queries EXCEPT ![calls[i].term] = @ + 1]
            /\ error' = error
       ELSE /\ calls' = [calls EXCEPT ![i].stage = "done", ![i].lastCode = code,
                                      ![i].outcome = "textError"]
            /\ error' = "Failed to search documents"
            /\ queries' = queries
    /\ UNCHANGED <<cases, searchTerm, loading, textMatches, timers, matchesFrom,
                   rapidTyped, metaQueries>>
    /\ UNCHANGED <<storeVars, navVars, dashVars, view, pageVars, profileVars, rosterVars>>

\* The text-search query of invocation i answers with rows (lines 91-103): no
\* rows clear the matches; otherwise the metadata join is issued.
TextSearchResults(i, results) ==
    /\ view = "list"
    /\ results \in SubLists(docText)
    /\ i \in 1..Len(calls) /\ calls[i].stage = "text"
    /\ IF results = <<>>
       THEN /\ textMatches' = EmptyMap
            /\ matchesFrom' = i
            /\ searching' = FALSE
            /\ calls' = [calls EXCEPT ![i].stage = "done", ![i].outcome = "empty"]
            /\ metaQueries' = metaQueries
       ELSE /\ calls' = [calls EXCEPT ![i].stage = "meta", ![i].hits = results]
            /\ metaQueries' = metaQueries + 1
            /\ UNCHANGED <<textMatches, matchesFrom, searching>>
    /\ UNCHANGED <<cases, searchTerm, loading, error, timers, rapidTyped, queries>>
    /\ UNCHANGED <<storeVars, navVars, dashVars, view, pageVars, profileVars, rosterVars>>

\* The metadata join of invocation i fails (lines 105, 143-148).
MetadataError(i) ==
    /\ view = "list"
    /\ i \in 1..Len(calls) /\ calls[i].stage = "meta"
    /\ error' = "Failed to search documents"
    /\ searching' = FALSE
    /\ calls' = [calls EXCEPT ![i].stage = "done", ![i].hits = <<>>,
                              ![i].outcome = "metaError"]
    /\ UNCHANGED <<cases, searchTerm, loading, textMatches, timers, matchesFrom,
                   rapidTyped, queries, metaQueries>>
    /\ UNCHANGED <<storeVars, navVars, dashVars, view, pageVars, profileVars, rosterVars>>

\* The metadata join of invocation i answers (lines 107-148): the matches are
\* built and stored.
MetadataResults(i) ==
    /\ view = "list"
    /\ i \in 1..Len(calls) /\ calls[i].stage = "meta"
    /\ \E metadata \in MetadataAnswers(documents, {calls[i].hits[j].sha1 : j \in 1..Len(calls[i].hits)}) :
          textMatches' = BuildMatches(calls[i].term, calls[i].hits, metadata)
    /\ matchesFrom' = i
    /\ searching' = FALSE
    /\ calls' = [calls EXCEPT ![i].stage = "done", ![i].hits = <<>>,
                              ![i].outcome = "matched"]
    /\ UNCHANGED <<cases, searchTerm, loading, error, timers, rapidTyped, queries,
                   metaQueries>>
    /\ UNCHANGED <<storeVars, navVars, dashVars, view, pageVars, profileVars, rosterVars>>

-----------------------------------------------------------------------------
(* CaseProfile: fetchDocumentMatches (CaseProfile.tsx lines 662-819), run  *)
(* by the effect of lines 821-827 when the profile is mounted.             *)

\* _.groupBy(searchResults, 'sha1') and lines 741-810, reduced to the fields
\* the model follows: one entry per document, with the pages that matched.
ProfileMatches(searchResults) ==
    LET keys == GroupKeys(searchResults, "sha1")
    IN  [j \in 1..Len(keys) |->
            LET pages == GroupOf(searchResults, "sha1", keys[j])
            IN  [sha1 |-> keys[j],
                 pages |-> [i \in 1..Len(pages) |-> pages[i].page_number]]]

\* handleCaseSelection (CaseList.tsx:411) -> handleCaseSelect (page.tsx:36):
\* the page renders the CaseProfile instead of the list.  The profile's
\* effect calls fetchDocumentMatches, which runs to its first await (lines
\* 662-679).  The searchTerm prop is an input of the component.
SelectCase(c, t) ==
    /\ view = "list" /\ ~loading /\ error = NULL
    /\ c \in 1..Len(cases)
    /\ t \in Terms
    /\ view' = "profile"
    /\ ListReset(FALSE)
    /\ profCase' = cases[c].incident_id
    /\ profTerm' = t
    /\ profDocs' = <<>>
    /\ IF IsShort(t)
       THEN /\ documentMatches' = <<>> /\ isLoading' = FALSE
            /\ errorMessage' = NULL /\ profPc' = "done" /\ profQueries' = 0
       ELSE IF ~configured
       THEN /\ documentMatches' = <<>> /\ isLoading' = FALSE
            /\ errorMessage' = "Supabase credentials are not configured"
            /\ profPc' = "done" /\ profQueries' = 0
       ELSE /\ documentMatches' = <<>> /\ isLoading' = TRUE
            /\ errorMessage' = NULL /\ profPc' = "meta" /\ profQueries' = 1
    /\ selectedCase' = cases[c].incident_id /\ UNCHANGED <<activeView, drills>>
    /\ UNCHANGED <<storeVars, dashVars, rosterVars>>

\* A query of fetchDocumentMatches fails (lines 681, 713, 730, 813-818).
\* A failure of the summaries query is swallowed by fetchSummaries (655-658).
ProfileQueryError ==
    /\ view = "profile" /\ profPc \in {"meta", "text", "pdf"}
    /\ errorMessage' = "Failed to search documents"
    /\ isLoading' = FALSE
    /\ profPc' = "done"
    /\ UNCHANGED <<profTerm, documentMatches, profDocs, profQueries, profCase>>
    /\ UNCHANGED <<storeVars, navVars, dashVars, view, listVars, rosterVars>>

\* The metadata rows of the case arrive (lines 683-699).
ProfileMetadata ==
    /\ view = "profile" /\ profPc = "meta"
    /\ LET caseDocuments == GroupOf(documents, "incident_id", profCase)
       IN  IF caseDocuments = <<>>
           THEN /\ documentMatches' = <<>> /\ isLoading' = FALSE /\ profPc' = "done"
                /\ UNCHANGED <<profDocs, profQueries>>
           ELSE /\ profDocs' = caseDocuments
                /\ profPc' = "summaries"
                /\ profQueries' = profQueries + 1
                /\ UNCHANGED <<documentMatches, isLoading>>
    /\ UNCHANGED <<profTerm, errorMessage, profCase>>
    /\ UNCHANGED <<storeVars, navVars, dashVars, view, listVars, rosterVars>>

\* fetchSummaries returns (a map, or {} after an error); the text search over
\* the case's documents is issued (lines 699-711).
ProfileSummaries ==
    /\ view = "profile" /\ profPc = "summaries"
    /\ profPc' = "text"
    /\ profQueries' = profQueries + 1
    /\ UNCHANGED <<profTerm, documentMatches, isLoading, errorMessage, profDocs, profCase>>
    /\ UNCHANGED <<storeVars, navVars, dashVars, view, listVars, rosterVars>>

\* The text search answers with pages of the case's documents (715-728).
ProfileTextResults(results) ==
    /\ view = "profile" /\ profPc = "text"
    /\ results \in SubLists(docText)
    /\ \A i \in 1..Len(results) : \E j \in 1..Len(profDocs) : results[i].sha1 = profDocs[j].sha1
    /\ IF results = <<>>
       THEN /\ documentMatches' = <<>> /\ isLoading' = FALSE /\ profPc' = "done"
            /\ UNCHANGED <<profDocs, profQueries>>
       ELSE /\ profDocs' = results
            /\ profPc' = "pdf"
            /\ profQueries' = profQueries + 1
            /\ UNCHANGED <<documentMatches, isLoading>>
    /\ UNCHANGED <<profTerm, errorMessage, profCase>>
    /\ UNCHANGED <<storeVars, navVars, dashVars, view, listVars, rosterVars>>

\* The pdf_mappings rows arrive; the matches are stored (lines 732-818).
ProfilePdfMappings ==
    /\ view = "profile" /\ profPc = "pdf"
    /\ documentMatches' = ProfileMatches(profDocs)
    /\ isLoading' = FALSE
    /\ profPc' = "done"
    /\ UNCHANGED <<profTerm, errorMessage, profDocs, profQueries, profCase>>
    /\ UNCHANGED <<storeVars, navVars, dashVars, view, listVars, rosterVars>>

\* onBack (page.tsx:136): selectedCase is cleared, the profile is unmounted
\* and a new CaseList instance is mounted.
BackToList ==
    /\ view = "profile"
    /\ view' = "list"
    /\ ListReset(TRUE)
    /\ profTerm' = <<>> /\ documentMatches' = <<>> /\ isLoading' = FALSE
    /\ errorMessage' = NULL /\ profPc' = "idle" /\ profDocs' = <<>>
    /\ profQueries' = 0 /\ profCase' = NULL
    /\ selectedCase' = NULL /\ UNCHANGED <<activeView, drills>>
    /\ UNCHANGED <<storeVars, dashVars, rosterVars>>

-----------------------------------------------------------------------------
(* The case views: a CaseList is mounted over the sample datastore.        *)

InitSearch ==
    /\ documents = CaseDocuments /\ posts = <<>> /\ docText = DocText
    /\ configured \in BOOLEAN
    /\ view = "list"
    /\ ListMounted /\ ProfileUnmounted /\ RosterIdle /\ PageShowsView

NextSearch ==
    \/ LoadInitialData
    \/ \E t \in Terms : ChangeTerm(t)
    \/ \E t \in Terms : DebounceFire(t)
    \/ \E i \in 1..MaxSearches, code \in ErrorCodes : TextSearchError(i, code)
    \/ \E i \in 1..MaxSearches, results \in SubLists(DocText) : TextSearchResults(i, results)
    \/ \E i \in 1..MaxSearches : MetadataError(i)
    \/ \E i \in 1..MaxSearches : MetadataResults(i)
    \/ \E c \in 1..Len(CaseDocuments), t \in Terms : SelectCase(c, t)
    \/ ProfileQueryError
    \/ ProfileMetadata
    \/ ProfileSummaries
    \/ \E results \in SubLists(DocText) : ProfileTextResults(results)
    \/ ProfilePdfMappings
    \/ BackToList

SpecSearch == InitSearch /\ [][NextSearch]_vars

-----------------------------------------------------------------------------
(* Claims about the free-text search.                                      *)

\* Number of text-search queries an invocation has issued.
IssuedBy(c) == IF c.outcome \in {"short", "configError"} THEN 0 ELSE c.retryCount + 1

RECURSIVE SumIssued(_, _)
SumIssued(cs, t) ==
    IF Len(cs) = 0 THEN 0
    ELSE (IF cs[1].term = t THEN IssuedBy(cs[1]) ELSE 0) + SumIssued(Tail(cs), t)

\* C1: only the response for the most recently issued term is ever applied
\* to textMatches: whenever a response of a searchDocuments invocation
\* changes textMatches, that invocation's term is the term of the latest
\* invocation (a response to an earlier term never overwrites textMatches).
C1_OnlyLatestTermApplied ==
    [][ (matchesFrom' # matchesFrom /\ matchesFrom' # 0 /\ textMatches' # textMatches)
          => calls'[matchesFrom'].term = calls'[Len(calls')].term ]_vars

\* C2: a search term shorter than 3 characters (the empty term included)
\* issues no datastore query and leaves the match set empty, in the case list
\* (searchDocuments, and the search effect for the empty term) and in the case
\* profile (fetchDocumentMatches).
C2_ShortTermNoQuery ==
    [][ /\ \A t \in Terms : queries[t] > 0 => Len(t) >= 3
        /\ (Len(calls') > Len(calls) /\ Len(calls'[Len(calls')].term) < 3)
              => /\ queries' = queries /\ metaQueries' = metaQueries
                 /\ textMatches' = EmptyMap
        /\ (searchTerm' # searchTerm /\ searchTerm' = <<>> /\ view' = "list")
              => queries' = queries /\ metaQueries' = metaQueries /\ textMatches' = EmptyMap
        /\ (view = "list" /\ view' = "profile" /\ Len(profTerm') < 3)
              => profQueries' = 0 /\ documentMatches' = <<>> /\ profPc' = "done"
        /\ (profQueries > 0 => Len(profTerm) >= 3) ]_vars

\* A short term was searched after a longer one and cleared the matches.
C2_Witness ==
    /\ Len(calls) = 2
    /\ calls[1].term = Term_abc /\ calls[1].outcome = "matched"
    /\ calls[2].term = Term_ab /\ calls[2].outcome = "short"
    /\ queries = [NoQueries EXCEPT ![Term_abc] = 1] /\ textMatches = EmptyMap

\* The scenario of C3: "ab" -> "abc" -> "abcd", each change arriving while
\* the debounce timer of the previous one was still pending (that is, less
\* than 300 ms after it).
RapidScenario == rapidTyped = 3

ScenarioSettled ==
    /\ RapidScenario /\ timers = {}
    /\ \A i \in 1..Len(calls) : calls[i].stage = "done"

\* C3 as stated: after the rapid changes "ab" -> "abc" -> "abcd", exactly one
\* text-search query has been issued in total, and it is for "abcd".
C3_ExactlyOneQuery == ScenarioSettled => queries = [NoQueries EXCEPT ![Term_abcd] = 1]

\* C3 amended: after the rapid changes exactly one search invocation is made,
\* for "abcd"; every text-search query issued is for "abcd", and there is one
\* query plus one per datastore timeout retried (at most 3).
C3_OneInvocationForLastTerm ==
    RapidScenario =>
        /\ \A t \in Terms \ {Term_abcd} : queries[t] = 0
        /\ Len(calls) <= 1
        /\ calls = <<>> => queries[Term_abcd] = 0
        /\ \A i \in 1..Len(calls) :
              /\ calls[i].term = Term_abcd
              /\ queries[Term_abcd] = calls[i].retryCount + 1
              /\ queries[Term_abcd] <= 3
        /\ ScenarioSettled => Len(calls) = 1

C3_Witness ==
    /\ ScenarioSettled /\ queries = [NoQueries EXCEPT ![Term_abcd] = 1]
    /\ calls[1].outcome = "matched"

\* C4: a text search that times out (57014) is reissued for the same term up
\* to 2 more times, so an invocation issues at most 3 text-search queries; a
\* third timeout puts the error in the error state; an error with another
\* code is surfaced at once and never retried.
C4_BoundedRetry ==
    /\ \A i \in 1..Len(calls) :
          LET c == calls[i]
          IN  /\ c.retryCount \in 0..2
              /\ IssuedBy(c) <= 3
              /\ (c.lastCode = "57014" /\ c.outcome # "textError") => c.retryCount >= 1
              /\ (c.lastCode = "57014" /\ c.outcome = "textError")
                    => c.retryCount = 2 /\ error # NULL
              /\ (c.lastCode \notin {NULL, "57014"})
                    => c.outcome = "textError" /\ c.stage = "done" /\ error # NULL
              /\ (c.lastCode = NULL) => c.retryCount = 0
    /\ \A t \in Terms : queries[t] = SumIssued(calls, t)

\* An invocation timed out three times and the error was surfaced.
C4_Witness ==
    \E i \in 1..Len(calls) :
        /\ calls[i].lastCode = "57014" /\ calls[i].outcome = "textError"
        /\ calls[i].retryCount = 2 /\ queries[calls[i].term] = 3
        /\ error # NULL

-----------------------------------------------------------------------------
(* Officer aggregation and post resolution.                                *)

Uids     == {"u1", "u2"}
PostUids == {"p1", "p2"}

MaxRows      == 2   \* rows of document_metadata in the officer views
MaxPosts     == 2   \* rows of post
MaxGroupRows == 3   \* rows of document_metadata in the grouping checks

OfficerName(uid) == IF uid = "u1" THEN "Ann" ELSE IF uid = "u2" THEN "Bob" ELSE "Cy"

\* A row of document_metadata (DocumentMetadata, one row per officer x
\* incident x source document), reduced to the columns the aggregation reads.
DocRow(u, inc, p) ==
    [uid |-> u, incident_id |-> inc, post_uid |-> p,
     officer_name |-> OfficerName(u), sha1 |-> "s1",
     star_no |-> (IF u = "u1" THEN "7" ELSE "12"), officer_agency |-> "SFSO",
     incident_type |-> "firearm", incident_date |-> 2, incident_year |-> "2020",
     source |-> "KQED"]

\* The row of a second source document of the same officer and incident, with
\* the officer's name, star number and agency left empty.
BareRow(u, inc) ==
    [DocRow(u, inc, NULL) EXCEPT !.sha1 = "s2", !.officer_name = "", !.star_no = "",
                                 !.officer_agency = ""]

\* The null of a star number.
NoStar == 0

\* Number(star_no), on the star numbers of the tables.
Number(str) == CASE str = "7" -> 7 [] str = "12" -> 12

\* firstIncident.star_no ? Number(firstIncident.star_no) : null
StarNo(row) == IF row.star_no = "" THEN NoStar ELSE Number(row.star_no)

\* firstIncident.officer_agency || 'SFPD'
Agency(row) == IF row.officer_agency = "" THEN "SFPD" ELSE row.officer_agency

\* The null of a date column, and the null of a post record.
NoDate == 0
NoPost == [post_uid |-> NULL, officer_name |-> NULL, start_date |-> NoDate, end_date |-> NoDate]

\* A row of post (PostTableRow).  start_date is a date, end_date a date or
\* null: 1 = 2018-01-01, 2 = 2020-01-01, 3 = 2020-01-02.
PostRow(p, s, e) ==
    [post_uid |-> p, officer_name |-> (IF p = "p1" THEN "Ann" ELSE "Bob"),
     start_date |-> s, end_date |-> e]

ClosedPost(p) == PostRow(p, 1, 2)
OpenPost(p)   == PostRow(p, 3, NoDate)

RosterRows == {DocRow(u, "i1", p) : u \in Uids, p \in PostUids \cup {NULL}}
PostRows   == {ClosedPost(p) : p \in PostUids} \cup {OpenPost(p) : p \in PostUids}
GroupRows  ==
    {DocRow(u, inc, NULL) : u \in Uids, inc \in {"i1", "i2"}}
        \cup {BareRow(u, inc) : u \in Uids, inc \in {"i1", "i2"}}

SeqsUpTo(S, n) == UNION {[1..k -> S] : k \in 0..n}

\* _.orderBy(rows, ['start_date'], [dir]): a stable sort; rows with equal
\* start_date keep their input order.
RECURSIVE orderBy(_, _)
orderBy(rows, dir) ==
    IF Len(rows) = 0 THEN <<>>
    ELSE LET before(a, b) == IF dir = "asc" THEN a < b ELSE a > b
             k == CHOOSE i \in 1..Len(rows) :
                      /\ \A j \in 1..Len(rows) : ~before(rows[j].start_date, rows[i].start_date)
                      /\ \A j \in 1..(i - 1) : rows[j].start_date # rows[i].start_date
             rest == [j \in 1..(Len(rows) - 1) |-> IF j < k THEN rows[j] ELSE rows[j + 1]]
         IN  <<rows[k]>> \o orderBy(rest, dir)

\* Array.prototype.reverse
reverse(rows) == [i \in 1..Len(rows) |-> rows[Len(rows) + 1 - i]]

\* _.sortBy(rows, 'start_date'): stable, ascending.
sortBy(rows) == orderBy(rows, "asc")

\* _.minBy(rows, 'start_date'): the first row with the least start_date;
\* undefined (here NoPost) for an empty array.
minBy(rows) ==
    IF Len(rows) = 0 THEN NoPost
    ELSE LET k == CHOOSE i \in 1..Len(rows) :
                      /\ \A j \in 1..Len(rows) : rows[i].start_date <= rows[j].start_date
                      /\ \A j \in 1..(i - 1) : rows[j].start_date # rows[i].start_date
         IN  rows[k]

\* Array.prototype.find(post => !post.end_date) || null
FindOpen(rows) ==
    LET isOpen(r) == r.end_date = NoDate
        open == SelectSeq(rows, isOpen)
    IN  IF Len(open) = 0 THEN NoPost ELSE open[1]

\* new Set(documents.map(doc => doc.post_uid).filter(uid => uid != null))
PostUidsOf(docs) == {docs[i].post_uid : i \in 1..Len(docs)} \ {NULL}

\* The incident entry built from a row (incidents.map(inc => ({...}))).
IncidentOf(row) ==
    [incident_id |-> row.incident_id, uid |-> row.uid, post_uid |-> row.post_uid,
     officer_name |-> row.officer_name]

IncidentsOf(rows) == [i \in 1..Len(rows) |-> IncidentOf(rows[i])]

\* ---- OfficerList.loadData (OfficerList.tsx:28-129)

\* The post query: .in('post_uid', Array.from(postUids)), selecting post_uid,
\* agency_name, start_date, end_date; officer_name is set to '' (lines 57-74).
RosterPostRecords(table, postUids) ==
    LET wanted(r) == r.post_uid \in postUids
        rows == SelectSeq(table, wanted)
    IN  [i \in 1..Len(rows) |-> [rows[i] EXCEPT !.officer_name = ""]]

\* A filter that keeps every post record, whatever post identifier it has.
AnyPostRecords(postRecords, incidents, officerName) ==
    [i \in 1..Len(postRecords) |-> [postRecords[i] EXCEPT !.officer_name = officerName]]

\* postRecords.filter(post => incidents.some(inc => inc.post_uid === post.post_uid))
\*            .map(post => ({...post, officer_name: firstIncident.officer_name}))
OfficerPostRecords(postRecords, incidents, officerName) ==
    LET referenced(post) == \E i \in 1..Len(incidents) : incidents[i].post_uid = post.post_uid
        rows == SelectSeq(postRecords, referenced)
    IN  [i \in 1..Len(rows) |-> [rows[i] EXCEPT !.officer_name = officerName]]

\* The same sort, in ascending order.
SortedPostsAscending(officerPostRecords) == orderBy(officerPostRecords, "asc")

\* _.orderBy(officerPostRecords, ['start_date'], ['desc'])  (line 93)
SortedPosts(officerPostRecords) == orderBy(officerPostRecords, "desc")

\* sortedPosts[0] || null  (line 116)
CurrentPost(sortedPosts) == IF Len(sortedPosts) > 0 THEN sortedPosts[1] ELSE NoPost

\* The start date of the first entry of the sorted history.
ServiceStartOfFirst(sortedPosts) ==
    IF Len(sortedPosts) > 0 THEN sortedPosts[1].start_date ELSE NoDate

\* sortedPosts.length > 0 ? _.minBy(sortedPosts, 'start_date')?.start_date || null : null
ServiceStartDate(sortedPosts) ==
    IF Len(sortedPosts) > 0 THEN minBy(sortedPosts).start_date ELSE NoDate

\* The last row of a group.
LastIncident(incidents) == incidents[Len(incidents)]

\* const firstIncident = incidents[0]  (line 82)
FirstIncident(incidents) == incidents[1]

\* Lines 77-120: one aggregate per uid group, in order of first appearance.
ProcessedOfficers(docs, postRecords) ==
    LET keys == GroupKeys(docs, "uid")
    IN  [j \in 1..Len(keys) |->
            LET incidents == GroupOf(docs, "uid", keys[j])
                firstIncident == FirstIncident(incidents)
                sortedPosts == SortedPosts(OfficerPostRecords(postRecords, incidents,
                                                              firstIncident.officer_name))
            IN  [uid |-> keys[j],
                 name |-> firstIncident.officer_name,
                 starNo |-> StarNo(firstIncident),
                 agency |-> Agency(firstIncident),
                 incidentCount |-> Len(incidents),
                 incidents |-> IncidentsOf(incidents),
                 postHistory |-> sortedPosts,
                 currentPost |-> CurrentPost(sortedPosts),
                 serviceStartDate |-> ServiceStartDate(sortedPosts)]]

\* ---- the older OfficerList (part_005:60-165)

pageSize == 1000

\* The paged fetch (lines 72-92): pages of pageSize rows are requested until a
\* page comes back empty or short.
RECURSIVE FetchPages(_, _)
FetchPages(table, page) ==
    LET lo == page * pageSize + 1
        hi == Min2((page + 1) * pageSize, Len(table))
        docs == SubSeq(table, lo, hi)
    IN  IF Len(docs) = 0 THEN <<>>
        ELSE IF Len(docs) = pageSize THEN docs \o FetchPages(table, page + 1)
        ELSE docs

\* .from('post').select('*').in('post_uid', Array.from(postUids))  (lines 100-103)
LegacyPostRecords(table, postUids) ==
    LET wanted(r) == r.post_uid \in postUids
    IN  SelectSeq(table, wanted)

\* Lines 107-153: the posts of an officer are those of the first row's post_uid,
\* sorted ascending; the current post is the last, the start date the first.
LegacyOfficers(docs, postRecords) ==
    LET keys == GroupKeys(docs, "uid")
    IN  [j \in 1..Len(keys) |->
            LET incidents == GroupOf(docs, "uid", keys[j])
                firstIncident == incidents[1]
                ofFirst(post) == post.post_uid = firstIncident.post_uid
                sortedPostRecords == orderBy(SelectSeq(postRecords, ofFirst), "asc")
                n == Len(sortedPostRecords)
            IN  [uid |-> keys[j],
                 name |-> firstIncident.officer_name,
                 starNo |-> StarNo(firstIncident),
                 agency |-> Agency(firstIncident),
                 incidentCount |-> Len(incidents),
                 incidents |-> IncidentsOf(incidents),
                 postHistory |-> sortedPostRecords,
                 currentPost |-> IF n > 0 THEN sortedPostRecords[n] ELSE NoPost,
                 serviceStartDate |-> IF n > 0 THEN sortedPostRecords[1].start_date
                                      ELSE NoDate]]

\* ---- handleOfficerFromCase (part_000:49-125)

\* .from('post').select('*').eq('officer_name', officerName)  (lines 68-71)
PostsByName(table, officerName) ==
    LET named(r) == r.officer_name = officerName
    IN  SelectSeq(table, named)

\* Lines 76-115.  The sorted copy is used for currentPost and serviceStartDate;
\* the aggregate stores postRecords itself as postHistory (line 112).
DrillOfficer(uid, docs, postRecords) ==
    LET sortedPosts == reverse(sortBy(postRecords))
    IN  [uid |-> uid,
         name |-> docs[1].officer_name,
         starNo |-> StarNo(docs[1]),
         agency |-> Agency(docs[1]),
         incidentCount |-> Len(docs),
         incidents |-> IncidentsOf(docs),
         postHistory |-> postRecords,
         currentPost |-> FindOpen(sortedPosts),
         serviceStartDate |-> IF Len(sortedPosts) > 0 THEN minBy(sortedPosts).start_date
                              ELSE NoDate]

-----------------------------------------------------------------------------
(* The officer views as steps: each await of a handler is a step boundary. *)

ListUnmounted ==
    /\ cases = <<>> /\ searchTerm = <<>> /\ loading = FALSE /\ searching = FALSE
    /\ error = NULL /\ textMatches = EmptyMap /\ timers = {} /\ calls = <<>>
    /\ matchesFrom = 0 /\ rapidTyped = 0 /\ queries = NoQueries
    /\ metaQueries = 0
    /\ filters = NoFilters /\ activeFilterDropdown = NULL
    /\ sortField = "incident_date" /\ sortDirection = "desc"
    /\ currentPage = 1 /\ itemsPerPage = 10

\* A CaseProfile is displayed for case c and its document search has ended.
ProfileShown(c) ==
    /\ profTerm = <<>> /\ documentMatches = <<>> /\ isLoading = FALSE
    /\ errorMessage = NULL /\ profPc = "done" /\ profDocs = <<>> /\ profQueries = 0
    /\ profCase = c

\* A loadData that issues its first query without looking at the credentials.
LoadDataUnchecked(build) ==
    /\ view = "roster" /\ op = "none"
    /\ op' = build
    /\ opPc' = "docs"
    /\ UNCHANGED <<opUid, fetched, officers, selectedOfficer, offError>>
    /\ UNCHANGED <<storeVars, navVars, dashVars, view, listVars, profileVars>>

\* The mount effect of the officer list starts loadData, which runs to its
\* first await (OfficerList.tsx:28-46; part_005:60-81).  build says which of
\* the two versions of the component is deployed.
LoadData(build) ==
    /\ view = "roster" /\ op = "none"
    /\ op' = build
    /\ IF ~configured
       THEN /\ offError' = "Supabase credentials are not configured"
            /\ opPc' = "done"
       ELSE /\ offError' = offError
            /\ opPc' = "docs"
    /\ UNCHANGED <<opUid, fetched, officers, selectedOfficer>>
    /\ UNCHANGED <<storeVars, navVars, dashVars, view, listVars, profileVars>>

\* The document query fails (OfficerList.tsx:44-46, 124-128).
RosterDocsError ==
    /\ op = "roster" /\ opPc = "docs"
    /\ offError' = "document query failed"
    /\ opPc' = "done"
    /\ UNCHANGED <<op, opUid, fetched, officers, selectedOfficer>>
    /\ UNCHANGED <<storeVars, navVars, dashVars, view, listVars, profileVars>>

\* The documents arrive (lines 48-74): the post query is issued only when some
\* row carries a post_uid; otherwise the officers are processed at once.
RosterDocsLoaded ==
    /\ op = "roster" /\ opPc = "docs"
    /\ fetched' = [docs |-> documents, posts |-> <<>>]
    /\ IF PostUidsOf(documents) # {}
       THEN /\ opPc' = "posts"
            /\ officers' = officers
       ELSE /\ opPc' = "done"
            /\ officers' = ProcessedOfficers(documents, <<>>)
    /\ UNCHANGED <<op, opUid, selectedOfficer, offError>>
    /\ UNCHANGED <<storeVars, navVars, dashVars, view, listVars, profileVars>>

\* The post query fails (line 63).
RosterPostsError ==
    /\ op = "roster" /\ opPc = "posts"
    /\ offError' = "post query failed"
    /\ opPc' = "done"
    /\ UNCHANGED <<op, opUid, fetched, officers, selectedOfficer>>
    /\ UNCHANGED <<storeVars, navVars, dashVars, view, listVars, profileVars>>

\* The posts arrive; the officers are processed and stored (lines 64-123).
RosterPostsLoaded ==
    /\ op = "roster" /\ opPc = "posts"
    /\ LET postRecords == RosterPostRecords(posts, PostUidsOf(fetched.docs))
       IN  /\ fetched' = [fetched EXCEPT !.posts = postRecords]
           /\ officers' = ProcessedOfficers(fetched.docs, postRecords)
    /\ opPc' = "done"
    /\ UNCHANGED <<op, opUid, selectedOfficer, offError>>
    /\ UNCHANGED <<storeVars, navVars, dashVars, view, listVars, profileVars>>

\* A page request of the older list fails (part_005:83, 157-161).
LegacyDocsError ==
    /\ op = "legacy" /\ opPc = "docs"
    /\ offError' = "Failed to fetch data"
    /\ opPc' = "done"
    /\ UNCHANGED <<op, opUid, fetched, officers, selectedOfficer>>
    /\ UNCHANGED <<storeVars, navVars, dashVars, view, listVars, profileVars>>

\* All pages have arrived; the post query is issued (part_005:84-103).
LegacyDocsLoaded ==
    /\ op = "legacy" /\ opPc = "docs"
    /\ fetched' = [docs |-> FetchPages(documents, 0), posts |-> <<>>]
    /\ opPc' = "posts"
    /\ UNCHANGED <<op, opUid, officers, selectedOfficer, offError>>
    /\ UNCHANGED <<storeVars, navVars, dashVars, view, listVars, profileVars>>

\* The post query fails (part_005:105).
LegacyPostsError ==
    /\ op = "legacy" /\ opPc = "posts"
    /\ offError' = "Failed to fetch post data"
    /\ opPc' = "done"
    /\ UNCHANGED <<op, opUid, fetched, officers, selectedOfficer>>
    /\ UNCHANGED <<storeVars, navVars, dashVars, view, listVars, profileVars>>

\* The posts arrive; the officers are processed and stored (part_005:107-156).
LegacyPostsLoaded ==
    /\ op = "legacy" /\ opPc = "posts"
    /\ LET postRecords == LegacyPostRecords(posts, PostUidsOf(fetched.docs))
       IN  /\ fetched' = [fetched EXCEPT !.posts = postRecords]
           /\ officers' = LegacyOfficers(fetched.docs, postRecords)
    /\ opPc' = "done"
    /\ UNCHANGED <<op, opUid, selectedOfficer, offError>>
    /\ UNCHANGED <<storeVars, navVars, dashVars, view, listVars, profileVars>>

\* onOfficerSelect of the displayed CaseProfile: handleOfficerFromCase(uid)
\* runs to its first await (part_000:49-57).  initSupabase throws without
\* credentials; the catch only logs.
OfficerFromCase(uid) ==
    /\ view = "profile" /\ op = "none"
    /\ op' = "drill" /\ opUid' = uid
    /\ opPc' = IF configured THEN "docs" ELSE "failed"
    /\ UNCHANGED <<fetched, officers, selectedOfficer, offError>>
    /\ UNCHANGED <<storeVars, navVars, dashVars, view, listVars, profileVars>>

\* A query of handleOfficerFromCase fails (part_000:59, 73, 121-124): the
\* error is logged and nothing is displayed.
DrillQueryError ==
    /\ op = "drill" /\ opPc \in {"docs", "posts"}
    /\ opPc' = "failed"
    /\ UNCHANGED <<op, opUid, fetched, officers, selectedOfficer, offError>>
    /\ UNCHANGED <<storeVars, navVars, dashVars, view, listVars, profileVars>>

\* The officer's documents arrive (part_000:61-71): without rows the handler
\* returns; otherwise the posts carrying the officer's name are requested.
DrillDocsLoaded ==
    /\ op = "drill" /\ opPc = "docs"
    /\ LET docs == GroupOf(documents, "uid", opUid)
       IN  /\ fetched' = [docs |-> docs, posts |-> <<>>]
           /\ opPc' = IF Len(docs) = 0 THEN "done" ELSE "posts"
    /\ UNCHANGED <<op, opUid, officers, selectedOfficer, offError>>
    /\ UNCHANGED <<storeVars, navVars, dashVars, view, listVars, profileVars>>

\* The posts arrive (part_000:75-120): the aggregate is built and the page
\* shows the officer profile instead of the case profile.
DrillPostsLoaded ==
    /\ op = "drill" /\ opPc = "posts"
    /\ LET postRecords == PostsByName(posts, fetched.docs[1].officer_name)
       IN  /\ fetched' = [fetched EXCEPT !.posts = postRecords]
           /\ selectedOfficer' = DrillOfficer(opUid, fetched.docs, postRecords)
    /\ opPc' = "done"
    /\ view' = "officer"
    /\ profTerm' = <<>> /\ documentMatches' = <<>> /\ isLoading' = FALSE
    /\ errorMessage' = NULL /\ profPc' = "idle" /\ profDocs' = <<>>
    /\ profQueries' = 0 /\ profCase' = NULL
    /\ UNCHANGED <<op, opUid, officers, offError>>
    /\ activeView' = "officers" /\ selectedCase' = NULL /\ UNCHANGED drills
    /\ UNCHANGED <<storeVars, dashVars, listVars>>

InitRoster ==
    /\ documents \in SeqsUpTo(RosterRows, MaxRows)
    /\ posts \in SeqsUpTo(PostRows, MaxPosts)
    /\ docText = <<>>
    /\ configured \in BOOLEAN
    /\ \/ view = "roster" /\ ProfileUnmounted
       \/ view = "profile" /\ documents # <<>> /\ ProfileShown(documents[1].incident_id)
    /\ ListUnmounted /\ RosterIdle /\ PageShowsView

NextRoster ==
    \/ \E build \in {"roster", "legacy"} : LoadData(build)
    \/ RosterDocsError
    \/ RosterDocsLoaded
    \/ RosterPostsError
    \/ RosterPostsLoaded
    \/ LegacyDocsError
    \/ LegacyDocsLoaded
    \/ LegacyPostsError
    \/ LegacyPostsLoaded
    \/ \E uid \in Uids : OfficerFromCase(uid)
    \/ DrillQueryError
    \/ DrillDocsLoaded
    \/ DrillPostsLoaded

SpecRoster == InitRoster /\ [][NextRoster]_vars

-----------------------------------------------------------------------------
(* The two tabs of the page: the officer list and the case list, each      *)
(* loading and grouping the same document_metadata rows.                   *)

\* Tabs onValueChange -> setActiveView (page.tsx:154): the content of the
\* other tab is unmounted and the selected one is mounted anew.
ShowTab(tab) ==
    /\ view \in {"roster", "list"} /\ tab \in {"roster", "list"} /\ tab # view
    /\ view' = tab
    /\ ListReset(tab = "list")
    /\ op' = "none" /\ opPc' = "idle" /\ opUid' = NULL /\ fetched' = <<>>
    /\ officers' = <<>> /\ selectedOfficer' = NULL /\ offError' = NULL
    /\ activeView' = (IF tab = "list" THEN "cases" ELSE "officers") /\ UNCHANGED <<selectedCase, drills>>
    /\ UNCHANGED <<storeVars, dashVars, profileVars>>

InitGroup ==
    /\ documents \in SeqsUpTo(GroupRows, MaxGroupRows)
    /\ posts = <<>> /\ docText = <<>>
    /\ configured \in BOOLEAN
    /\ view = "roster"
    /\ ListUnmounted /\ ProfileUnmounted /\ RosterIdle /\ PageShowsView

NextGroup ==
    \/ \E build \in {"roster"} : LoadData(build)
    \/ RosterDocsError
    \/ RosterDocsLoaded
    \/ \E tab \in {"roster", "list"} : ShowTab(tab)
    \/ LoadInitialData

SpecGroup == InitGroup /\ [][NextGroup]_vars

-----------------------------------------------------------------------------
(* Claims about the officer aggregates.                                    *)

RosterLoaded == op = "roster" /\ opPc = "done" /\ offError = NULL
LegacyLoaded == op = "legacy" /\ opPc = "done" /\ offError = NULL
DrillShown   == op = "drill" /\ view = "officer"

RosterAggregates == IF RosterLoaded THEN Range(officers) ELSE {}
LegacyAggregates == IF LegacyLoaded THEN Range(officers) ELSE {}
DrillAggregates  == IF DrillShown THEN {selectedOfficer} ELSE {}

StartDates(history) == {history[i].start_date : i \in 1..Len(history)}

\* C5: in every officer aggregate produced by the roster load, currentPost is
\* null, or a post record with a null end_date whose post_uid is referenced by
\* one of the officer's incident rows.
C5_CurrentPostOpenAndOwn ==
    \A o \in RosterAggregates :
        \/ o.currentPost = NoPost
        \/ /\ o.currentPost.end_date = NoDate
           /\ \E i \in 1..Len(o.incidents) : o.incidents[i].post_uid = o.currentPost.post_uid

\* C6: serviceStartDate is the minimum start_date of the aggregate's post
\* history, and null exactly when the history is empty (roster load, older
\* roster load and drill-down).
C6_ServiceStartIsMinimum ==
    \A o \in RosterAggregates \cup LegacyAggregates \cup DrillAggregates :
        /\ (o.serviceStartDate = NoDate) <=> (o.postHistory = <<>>)
        /\ o.postHistory # <<>> =>
              /\ o.serviceStartDate \in StartDates(o.postHistory)
              /\ \A d \in StartDates(o.postHistory) : o.serviceStartDate <= d

C6_Witness ==
    /\ RosterLoaded
    /\ \E o \in Range(officers) :
          /\ Len(o.postHistory) = 2
          /\ o.postHistory[1].start_date = 3 /\ o.postHistory[2].start_date = 1
          /\ o.serviceStartDate = 1

\* C7: the postHistory of every aggregate, built by the roster load or by the
\* drill-down from a case, is sorted by start_date descending.
C7_PostHistoryDescending ==
    \A o \in RosterAggregates \cup DrillAggregates :
        \A i \in 1..(Len(o.postHistory) - 1) :
            o.postHistory[i].start_date >= o.postHistory[i + 1].start_date

\* No row of the post table carries a post_uid of one of the officer's rows.
Unresolvable(o) ==
    \A i \in 1..Len(o.incidents), j \in 1..Len(posts) :
        posts[j].post_uid # o.incidents[i].post_uid

\* C8: an officer none of whose rows resolves to a post record gets an empty
\* postHistory, a null currentPost and a null serviceStartDate; the load ends
\* in the error state only when the configuration or a query failed, and a
\* post query can fail only if it was issued (some row carries a post_uid).
C8_UnresolvedOfficer ==
    /\ \A o \in RosterAggregates :
          Unresolvable(o) =>
              /\ o.postHistory = <<>>
              /\ o.currentPost = NoPost
              /\ o.serviceStartDate = NoDate
    /\ (op = "roster" /\ opPc = "done") =>
          /\ offError \in {NULL, "Supabase credentials are not configured",
                           "document query failed", "post query failed"}
          /\ offError = "Supabase credentials are not configured" <=> ~configured
          /\ offError = "post query failed" => PostUidsOf(documents) # {}
          /\ offError = NULL =>
                Len(officers) = Cardinality({documents[i].uid : i \in 1..Len(documents)})
    /\ (op = "roster" /\ opPc = "posts") => PostUidsOf(documents) # {}

C8_Witness ==
    /\ RosterLoaded
    /\ \E o \in Range(officers) :
          /\ o.incidents[1].post_uid = "p2" /\ Unresolvable(o)
          /\ o.postHistory = <<>> /\ o.currentPost = NoPost /\ o.serviceStartDate = NoDate
    /\ \E o \in Range(officers) : o.postHistory # <<>>

\* The resolved post records are exactly 2018-01-01..2020-01-01 and
\* 2020-01-02..(open).
TwoPostScenario(o) ==
    /\ Len(o.postHistory) = 2
    /\ {<<o.postHistory[i].start_date, o.postHistory[i].end_date>> : i \in 1..2}
          = {<<1, 2>>, <<3, NoDate>>}

\* C9: in that scenario the current post is the open-ended record and the
\* service start date is 2018-01-01, whatever the order of the post table
\* (roster load and older roster load).
C9_TwoPostScenario ==
    \A o \in RosterAggregates \cup LegacyAggregates :
        TwoPostScenario(o) =>
            /\ o.currentPost.start_date = 3 /\ o.currentPost.end_date = NoDate
            /\ o.serviceStartDate = 1

C9_Witness ==
    /\ RosterLoaded
    /\ posts = <<ClosedPost("p1"), OpenPost("p1")>>
    /\ \E o \in Range(officers) :
          /\ TwoPostScenario(o)
          /\ o.currentPost = [OpenPost("p1") EXCEPT !.officer_name = o.name]
          /\ o.serviceStartDate = 1

-----------------------------------------------------------------------------
(* Claims about the grouping.                                              *)

CountIn(seq, v) == Cardinality({i \in 1..Len(seq) : seq[i] = v})

RECURSIVE Concat(_)
Concat(seqs) == IF Len(seqs) = 0 THEN <<>> ELSE seqs[1] \o Concat(Tail(seqs))

SameMultiset(a, b) ==
    /\ Len(a) = Len(b)
    /\ \A v \in Range(a) \cup Range(b) : CountIn(a, v) = CountIn(b, v)

\* The rows recombined from the officer aggregates / from the case aggregates.
OfficerEntries == Concat([k \in 1..Len(officers) |-> officers[k].incidents])
CaseEntries ==
    Concat([k \in 1..Len(cases) |->
               [i \in 1..Len(cases[k].officers) |->
                   <<cases[k].incident_id, cases[k].officers[i].uid>>]])

ListLoaded == view = "list" /\ ~loading /\ error = NULL

\* C10: grouping by uid and grouping by incident_id each partition the rows:
\* the groups have distinct keys, every entry lies in the group of its key, and
\* the recombined entries are the multiset of the input rows.
C10_GroupingPartitions ==
    /\ RosterLoaded =>
          /\ \A j, k \in 1..Len(officers) : officers[j].uid = officers[k].uid => j = k
          /\ \A k \in 1..Len(officers) : \A i \in 1..Len(officers[k].incidents) :
                officers[k].incidents[i].uid = officers[k].uid
          /\ SameMultiset(OfficerEntries, IncidentsOf(documents))
    /\ ListLoaded =>
          /\ \A j, k \in 1..Len(cases) :
                cases[j].incident_id = cases[k].incident_id => j = k
          /\ SameMultiset(CaseEntries,
                          [i \in 1..Len(documents) |->
                              <<documents[i].incident_id, documents[i].uid>>])

C10_Witness ==
    /\ RosterLoaded
    /\ documents = <<DocRow("u1", "i1", NULL), DocRow("u2", "i1", NULL), DocRow("u1", "i1", NULL)>>
    /\ Len(officers) = 2
    /\ officers[1].incidentCount = 2 /\ Len(officers[1].incidents) = 2

-----------------------------------------------------------------------------
(* The two tabs over larger tables: three officers, two incidents.         *)

MaxCountRows == 5   \* rows of document_metadata in the counting checks

CountRows == {DocRow(u, inc, NULL) : u \in {"u1", "u2", "u3"}, inc \in {"i1", "i2"}}

InitCount ==
    /\ configured \in BOOLEAN
    /\ documents \in IF configured THEN SeqsUpTo(CountRows, MaxCountRows) ELSE {<<>>}
    /\ posts = <<>> /\ docText = <<>>
    /\ view = "roster"
    /\ ListUnmounted /\ ProfileUnmounted /\ RosterIdle /\ PageShowsView

SpecCount == InitCount /\ [][NextGroup]_vars

UidsIn(rows)      == {rows[i].uid : i \in 1..Len(rows)}
IncidentsIn(rows) == {rows[i].incident_id : i \in 1..Len(rows)}

RECURSIVE SumIncidentCount(_)
SumIncidentCount(os) ==
    IF Len(os) = 0 THEN 0 ELSE os[1].incidentCount + SumIncidentCount(Tail(os))

\* C11: the roster load yields exactly one officer aggregate per distinct uid,
\* the case load exactly one case aggregate per distinct incident_id, and the
\* incidentCount values of the officer aggregates sum to the number of rows.
C11_OneAggregatePerKey ==
    /\ RosterLoaded =>
          /\ Len(officers) = Cardinality(UidsIn(documents))
          /\ {officers[k].uid : k \in 1..Len(officers)} = UidsIn(documents)
          /\ SumIncidentCount(officers) = Len(documents)
    /\ ListLoaded =>
          /\ Len(cases) = Cardinality(IncidentsIn(documents))
          /\ {cases[k].incident_id : k \in 1..Len(cases)} = IncidentsIn(documents)

\* 5 rows, 3 uids, 2 incident ids: 3 officers with counts summing to 5, and
\* the case load of the same rows gives 2 cases.
C11_Witness ==
    /\ RosterLoaded
    /\ Len(documents) = 5
    /\ Cardinality(UidsIn(documents)) = 3 /\ Cardinality(IncidentsIn(documents)) = 2
    /\ Len(officers) = 3 /\ SumIncidentCount(officers) = 5
    /\ Len(ProcessedCases(documents)) = 2

\* C12: in every case aggregate no two entries of case.officers have the same
\* uid, even when the officer appears in several rows of the incident.
C12_DistinctOfficersPerCase ==
    ListLoaded =>
        \A k \in 1..Len(cases) : \A i, j \in 1..Len(cases[k].officers) :
            cases[k].officers[i].uid = cases[k].officers[j].uid => i = j

\* C13: each officer aggregate of the roster load takes its name, star number
\* and agency from the first row of its uid group (an absent star number gives
\* null, an absent agency 'SFPD'), and its incidentCount is the number of rows of
\* the group, rows of the same incident counted each.
C13_FirstRowRepresents ==
    RosterLoaded =>
        \A k \in 1..Len(officers) :
            LET o == officers[k]
                first == CHOOSE i \in 1..Len(documents) :
                             /\ documents[i].uid = o.uid
                             /\ \A j \in 1..(i - 1) : documents[j].uid # o.uid
                row == documents[first]
            IN  /\ o.name = row.officer_name
                /\ o.starNo = (IF row.star_no = "" THEN NoStar
                               ELSE IF row.star_no = "7" THEN 7 ELSE 12)
                /\ o.agency = (IF row.officer_agency = "" THEN "SFPD" ELSE row.officer_agency)
                /\ o.incidentCount = Cardinality({i \in 1..Len(documents) : documents[i].uid = o.uid})

\* Three rows of one officer, two of them of the same incident, the first row a
\* named one and a later row a bare one.
C13_Witness ==
    /\ RosterLoaded
    /\ documents = <<DocRow("u1", "i1", NULL), BareRow("u1", "i1"), DocRow("u1", "i2", NULL)>>
    /\ Len(officers) = 1
    /\ officers[1].name = "Ann" /\ officers[1].starNo = 7 /\ officers[1].agency = "SFSO"
    /\ officers[1].incidentCount = 3

-----------------------------------------------------------------------------
(* Claims about failures.                                                  *)

\* C14: a failed datastore call of a view ends with the view's user-visible
\* error state set and no later step of the operation executed: a failed roster
\* load shows its error and stores no officers; a failed drill-down fetch from
\* the case profile shows an error and selects no officer.
C14_FailureSurfaces ==
    /\ (op \in {"roster", "legacy"} /\ opPc = "done" /\ officers = <<>> /\ documents # <<>>)
          => offError # NULL
    /\ (op \in {"roster", "legacy"} /\ offError # NULL) => (opPc = "done" /\ officers = <<>>)
    /\ (op = "drill" /\ opPc = "failed" /\ configured)
          => /\ view = "profile"
             /\ (errorMessage # NULL \/ offError # NULL)

ConfigurationError == "Supabase credentials are not configured"

\* C15: without the datastore URL or the API key, the load of the officer list
\* and the load of the case list end in the error state with the configuration
\* error, out of the loading state, and no datastore query is issued.
C15_ConfigurationIsFatal ==
    ~configured =>
        /\ opPc \notin {"docs", "posts"}
        /\ op = "roster" =>
              (opPc = "done" /\ offError = ConfigurationError /\ officers = <<>>)
        /\ (view = "list" /\ ~loading) => (error = ConfigurationError /\ cases = <<>>)
        /\ queries = NoQueries /\ metaQueries = 0 /\ profQueries = 0

C15_Witness ==
    /\ ~configured
    /\ view = "list" /\ ~loading /\ error = ConfigurationError /\ cases = <<>>

-----------------------------------------------------------------------------
(* CaseList: filtering of the loaded cases (getFilteredCases).             *)

\* The characters of the strings that occur in the columns the filter reads.
Chars(str) ==
    CASE str = "" -> <<>>
      [] str = "i1" -> <<"i", "1">>
      [] str = "i2" -> <<"i", "2">>
      [] str = "i3" -> <<"i", "3">>
      [] str = "firearm" -> <<"f", "i", "r", "e", "a", "r", "m">>
      [] str = "dishonesty" -> <<"d", "i", "s", "h", "o", "n", "e", "s", "t", "y">>
      [] str = "KQED" -> <<"K", "Q", "E", "D">>
      [] str = "ABC7" -> <<"A", "B", "C", "7">>
      [] str = "Ann" -> <<"A", "n", "n">>
      [] str = "Bob" -> <<"B", "o", "b">>
      [] str = "Cy" -> <<"C", "y">>
      [] str = "SFSO" -> <<"S", "F", "S", "O">>
      [] str = "SFPD" -> <<"S", "F", "P", "D">>
      [] str = "2018" -> <<"2", "0", "1", "8">>
      [] str = "2020" -> <<"2", "0", "2", "0">>
      [] str = "c001" -> <<"c", "0", "0", "1">>
      [] str = "c002" -> <<"c", "0", "0", "2">>
      [] str = "c003" -> <<"c", "0", "0", "3">>
      [] str = "c004" -> <<"c", "0", "0", "4">>
      [] str = "c005" -> <<"c", "0", "0", "5">>
      [] str = "c006" -> <<"c", "0", "0", "6">>
      [] str = "c007" -> <<"c", "0", "0", "7">>
      [] str = "c008" -> <<"c", "0", "0", "8">>
      [] str = "c009" -> <<"c", "0", "0", "9">>
      [] str = "c010" -> <<"c", "0", "1", "0">>
      [] str = "c011" -> <<"c", "0", "1", "1">>
      [] str = "c012" -> <<"c", "0", "1", "2">>
      [] str = "c013" -> <<"c", "0", "1", "3">>
      [] str = "c014" -> <<"c", "0", "1", "4">>
      [] str = "c015" -> <<"c", "0", "1", "5">>
      [] str = "c016" -> <<"c", "0", "1", "6">>
      [] str = "c017" -> <<"c", "0", "1", "7">>
      [] str = "c018" -> <<"c", "0", "1", "8">>
      [] str = "c019" -> <<"c", "0", "1", "9">>
      [] str = "c020" -> <<"c", "0", "2", "0">>
      [] str = "c021" -> <<"c", "0", "2", "1">>
      [] str = "c022" -> <<"c", "0", "2", "2">>
      [] str = "c023" -> <<"c", "0", "2", "3">>
      [] str = "c024" -> <<"c", "0", "2", "4">>
      [] str = "c025" -> <<"c", "0", "2", "5">>
      [] str = "c026" -> <<"c", "0", "2", "6">>
      [] str = "c027" -> <<"c", "0", "2", "7">>
      [] str = "c028" -> <<"c", "0", "2", "8">>
      [] str = "c029" -> <<"c", "0", "2", "9">>
      [] str = "c030" -> <<"c", "0", "3", "0">>
      [] str = "c031" -> <<"c", "0", "3", "1">>
      [] str = "c032" -> <<"c", "0", "3", "2">>
      [] str = "c033" -> <<"c", "0", "3", "3">>
      [] str = "c034" -> <<"c", "0", "3", "4">>
      [] str = "c035" -> <<"c", "0", "3", "5">>
      [] str = "c036" -> <<"c", "0", "3", "6">>
      [] str = "c037" -> <<"c", "0", "3", "7">>
      [] str = "c038" -> <<"c", "0", "3", "8">>
      [] str = "c039" -> <<"c", "0", "3", "9">>
      [] str = "c040" -> <<"c", "0", "4", "0">>
      [] str = "c041" -> <<"c", "0", "4", "1">>
      [] str = "c042" -> <<"c", "0", "4", "2">>
      [] str = "c043" -> <<"c", "0", "4", "3">>
      [] str = "c044" -> <<"c", "0", "4", "4">>
      [] str = "c045" -> <<"c", "0", "4", "5">>
      [] str = "c046" -> <<"c", "0", "4", "6">>
      [] str = "c047" -> <<"c", "0", "4", "7">>
      [] str = "c048" -> <<"c", "0", "4", "8">>
      [] str = "c049" -> <<"c", "0", "4", "9">>
      [] str = "c050" -> <<"c", "0", "5", "0">>
      [] str = "c051" -> <<"c", "0", "5", "1">>
      [] str = "c052" -> <<"c", "0", "5", "2">>
      [] str = "c053" -> <<"c", "0", "5", "3">>
      [] str = "c054" -> <<"c", "0", "5", "4">>
      [] str = "c055" -> <<"c", "0", "5", "5">>
      [] str = "c056" -> <<"c", "0", "5", "6">>
      [] str = "c057" -> <<"c", "0", "5", "7">>
      [] str = "c058" -> <<"c", "0", "5", "8">>
      [] str = "c059" -> <<"c", "0", "5", "9">>
      [] str = "c060" -> <<"c", "0", "6", "0">>
      [] str = "c061" -> <<"c", "0", "6", "1">>
      [] str = "c062" -> <<"c", "0", "6", "2">>
      [] str = "c063" -> <<"c", "0", "6", "3">>
      [] str = "c064" -> <<"c", "0", "6", "4">>
      [] str = "c065" -> <<"c", "0", "6", "5">>
      [] str = "c066" -> <<"c", "0", "6", "6">>
      [] str = "c067" -> <<"c", "0", "6", "7">>
      [] str = "c068" -> <<"c", "0", "6", "8">>
      [] str = "c069" -> <<"c", "0", "6", "9">>
      [] str = "c070" -> <<"c", "0", "7", "0">>
      [] str = "c071" -> <<"c", "0", "7", "1">>
      [] str = "c072" -> <<"c", "0", "7", "2">>
      [] str = "c073" -> <<"c", "0", "7", "3">>
      [] str = "c074" -> <<"c", "0", "7", "4">>
      [] str = "c075" -> <<"c", "0", "7", "5">>
      [] str = "c076" -> <<"c", "0", "7", "6">>
      [] str = "c077" -> <<"c", "0", "7", "7">>
      [] str = "c078" -> <<"c", "0", "7", "8">>
      [] str = "c079" -> <<"c", "0", "7", "9">>
      [] str = "c080" -> <<"c", "0", "8", "0">>
      [] str = "c081" -> <<"c", "0", "8", "1">>
      [] str = "c082" -> <<"c", "0", "8", "2">>
      [] str = "c083" -> <<"c", "0", "8", "3">>
      [] str = "c084" -> <<"c", "0", "8", "4">>
      [] str = "c085" -> <<"c", "0", "8", "5">>
      [] str = "c086" -> <<"c", "0", "8", "6">>
      [] str = "c087" -> <<"c", "0", "8", "7">>
      [] str = "c088" -> <<"c", "0", "8", "8">>
      [] str = "c089" -> <<"c", "0", "8", "9">>
      [] str = "c090" -> <<"c", "0", "9", "0">>
      [] str = "c091" -> <<"c", "0", "9", "1">>
      [] str = "c092" -> <<"c", "0", "9", "2">>
      [] str = "c093" -> <<"c", "0", "9", "3">>
      [] str = "c094" -> <<"c", "0", "9", "4">>
      [] str = "c095" -> <<"c", "0", "9", "5">>
      [] str = "c096" -> <<"c", "0", "9", "6">>
      [] str = "c097" -> <<"c", "0", "9", "7">>
      [] str = "c098" -> <<"c", "0", "9", "8">>
      [] str = "c099" -> <<"c", "0", "9", "9">>
      [] str = "c100" -> <<"c", "1", "0", "0">>
      [] str = "c101" -> <<"c", "1", "0", "1">>
      [] str = "c102" -> <<"c", "1", "0", "2">>
      [] str = "c103" -> <<"c", "1", "0", "3">>
      [] str = "c104" -> <<"c", "1", "0", "4">>
      [] str = "c105" -> <<"c", "1", "0", "5">>
      [] str = "c106" -> <<"c", "1", "0", "6">>
      [] str = "c107" -> <<"c", "1", "0", "7">>
      [] str = "c108" -> <<"c", "1", "0", "8">>
      [] str = "c109" -> <<"c", "1", "0", "9">>
      [] str = "c110" -> <<"c", "1", "1", "0">>

\* c.field.toLowerCase().includes(searchTerm.toLowerCase())
FieldIncludes(str, term) == includes(toLowerCase(Chars(str)), toLowerCase(term))

\* c.officers.some(o => o.name?.toLowerCase().includes(...)), line 258
SomeOfficerIncludes(c, term) ==
    \E i \in 1..Len(c.officers) : FieldIncludes(c.officers[i].name, term)

\* The search-term filter, lines 244-260: with text matches present a case is
\* kept when it has matches or its id or type contains the term; without text
\* matches, when its id, type, source or an officer name contains the term.
SearchKeeps(c, term, matches) ==
    IF DOMAIN matches # {}
    THEN \/ c.incident_id \in DOMAIN matches
         \/ FieldIncludes(c.incident_id, term)
         \/ FieldIncludes(c.incident_type, term)
    ELSE \/ FieldIncludes(c.incident_id, term)
         \/ FieldIncludes(c.incident_type, term)
         \/ FieldIncludes(c.source, term)
         \/ SomeOfficerIncludes(c, term)

\* new Date(incident_date).getFullYear().toString(), for the dates of the model.
YearOfDate(d) == IF d = 1 THEN "2018" ELSE "2020"

\* The year a case is filed under, lines 224-231 and 269-277: incident_year
\* when present, else the year of incident_date, else none.
YearOf(c) ==
    IF c.incident_year # "" THEN c.incident_year
    ELSE IF c.incident_date # NoDate THEN YearOfDate(c.incident_date)
    ELSE NULL

\* The discrete filters, lines 262-282.
FiltersKeep(c, f) ==
    /\ (f.incidentType # NULL => c.incident_type = f.incidentType)
    /\ (f.year # NULL => YearOf(c) = f.year)
    /\ (f.source # NULL => c.source = f.source)

\* A filter that also drops the first case it would keep.
getFilteredCasesDropFirst(cs, term, matches, f) ==
    LET keep(c) == /\ (term # <<>> => SearchKeeps(c, term, matches))
                   /\ FiltersKeep(c, f)
        kept == SelectSeq(cs, keep)
    IN  IF Len(kept) > 1 THEN Tail(kept) ELSE kept

\* getFilteredCases, lines 240-285, as a function of the state it reads.
getFilteredCases(cs, term, matches, f) ==
    LET keep(c) == /\ (term # <<>> => SearchKeeps(c, term, matches))
                   /\ FiltersKeep(c, f)
    IN  SelectSeq(cs, keep)

FilteredCases == getFilteredCases(cases, searchTerm, textMatches, filters)

\* A case one of whose searchable fields (incident id, incident type, source,
\* an officer name) contains the term, whatever the case of the letters.
FieldMatch(c, term) ==
    \/ FieldIncludes(c.incident_id, term)
    \/ FieldIncludes(c.incident_type, term)
    \/ FieldIncludes(c.source, term)
    \/ SomeOfficerIncludes(c, term)

\* C17: with a non-empty search term, every case one of whose searchable
\* fields (incident id, incident type, source, officer name) contains the term
\* and that passes the active type/year/source filters is in the filtered
\* list, with or without text-search matches present.
C17_FieldMatchesAreListed ==
    (view = "list" /\ searchTerm # <<>>) =>
        \A i \in 1..Len(cases) :
            (FieldMatch(cases[i], searchTerm) /\ FiltersKeep(cases[i], filters))
                => cases[i] \in Range(FilteredCases)

-----------------------------------------------------------------------------
(* CaseList: sorting and pagination of the filtered cases.                 *)

\* Characters in the order of their UTF-16 code units (digits, upper case,
\* lower case), the order JavaScript's < and > compare strings by.
CodeOrder ==
    << "0", "1", "2", "3", "4", "5", "6", "7", "8", "9",
       "A", "B", "C", "D", "E", "F", "G", "H", "I", "J", "K", "L", "M",
       "N", "O", "P", "Q", "R", "S", "T", "U", "V", "W", "X", "Y", "Z",
       "a", "b", "c", "d", "e", "f", "g", "h", "i", "j", "k", "l", "m",
       "n", "o", "p", "q", "r", "s", "t", "u", "v", "w", "x", "y", "z" >>

Code(ch) == CHOOSE i \in 1..Len(CodeOrder) : CodeOrder[i] = ch

\* a < b on strings: at the first position where they differ the code unit of
\* a is smaller, or a is a proper prefix of b.
StringLess(a, b) ==
    \E k \in 1..(Len(b)) :
        /\ \A j \in 1..(k - 1) : j <= Len(a) /\ a[j] = b[j]
        /\ (k > Len(a) \/ (a[k] # b[k] /\ Code(a[k]) < Code(b[k])))
        /\ k - 1 <= Len(a)

\* The sortable columns: of the case list (lines 688, 698, 718, 748) and of
\* the officer list (OfficerList.tsx lines 267-308).
CaseSortFields    == {"incident_id", "incident_type", "incident_date", "source"}
OfficerSortFields == {"name", "starNo", "agency", "incidentCount", "serviceStartDate"}
NumberFields      == {"incident_date", "starNo", "incidentCount", "serviceStartDate"}

\* The null of a sort key: a missing star number or date.
IsNullKey(field, v) ==
    \/ field = "starNo" /\ v = NoStar
    \/ field \in {"incident_date", "serviceStartDate"} /\ v = NoDate

\* lodash compareAscending(a, b) < 0: among defined values a < b; null sorts
\* after every defined value.
KeyLess(field, a, b) ==
    IF field \in NumberFields
    THEN IF IsNullKey(field, a) THEN FALSE
         ELSE IF IsNullKey(field, b) THEN TRUE
         ELSE a < b
    ELSE StringLess(Chars(a), Chars(b))

\* a sorts strictly before b in direction dir (compareMultiple: the result of
\* compareAscending, negated for 'desc').
SortsBefore(field, dir, a, b) ==
    IF dir = "asc" THEN KeyLess(field, a, b) ELSE KeyLess(field, b, a)

\* _.orderBy(rows, [field], [dir]): the rows in the order of their keys; rows
\* with equal keys keep their input order (baseSortBy breaks ties by index).
\* Computed key by key: the rows of the first of the remaining keys, in input
\* order, then the rows of the other keys.
RECURSIVE orderByKeys(_, _, _, _)
orderByKeys(rows, field, dir, keys) ==
    IF keys = {} THEN <<>>
    ELSE LET k == CHOOSE c \in keys : \A o \in keys : ~SortsBefore(field, dir, o, c)
             hasKey(r) == r[field] = k
         IN  SelectSeq(rows, hasKey) \o orderByKeys(rows, field, dir, keys \ {k})

KeysOf(rows, field) == {rows[i][field] : i \in 1..Len(rows)}

\* A sort whose descending order is the reversed ascending order.
orderByReversing(rows, field, dir) ==
    IF dir = "asc" THEN orderByKeys(rows, field, "asc", KeysOf(rows, field))
    ELSE reverse(orderByKeys(rows, field, "asc", KeysOf(rows, field)))

orderByField(rows, field, dir) == orderByKeys(rows, field, dir, KeysOf(rows, field))

\* getSortedAndFilteredCases, lines 300-309.
FilteredAndSortedCases == orderByField(FilteredCases, sortField, sortDirection)

\* A page count that rounds down.
Floor(n, s) == n \div s

\* Math.ceil(n / s)
Ceil(n, s) == IF n % s = 0 THEN n \div s ELSE (n \div s) + 1

\* Array.prototype.slice(from, to) for 0 <= from <= to.
slice(list, from, to) == SubSeq(list, from + 1, Min2(to, Len(list)))

\* Lines 314-318.
totalPagesOf(list, s) == Ceil(Len(list), s)
PageOf(list, s, p) == slice(list, (p - 1) * s, p * s)

totalPages     == totalPagesOf(FilteredAndSortedCases, itemsPerPage)
paginatedCases == PageOf(FilteredAndSortedCases, itemsPerPage, currentPage)

\* The options of the page-size select, lines 883-886.
PageSizes == {10, 25, 50, 100}

-----------------------------------------------------------------------------
(* CaseList: the filter, sort and pagination controls as steps.            *)

\* The controls are rendered when the list is neither loading nor in the
\* error state (lines 575-581).
ListRendered == view = "list" /\ ~loading /\ error = NULL

\* The pagination controls are rendered for a non-empty filtered list, line 871.
PagerRendered == ListRendered /\ Len(FilteredAndSortedCases) > 0

\* The filter column of each dropdown.
FilterColumns == {"incident_type", "year", "source"}
FilterKey(column) == IF column = "incident_type" THEN "incidentType" ELSE column

\* getIncidentTypes / getYears / getSources, lines 218-238: the options a
\* dropdown offers (as sets; their display order is not modelled).
FilterOptions(column) ==
    CASE column = "incident_type" -> {cases[i].incident_type : i \in 1..Len(cases)}
      [] column = "year" -> {YearOf(cases[i]) : i \in 1..Len(cases)} \ {NULL}
      [] column = "source" -> {cases[i].source : i \in 1..Len(cases)} \ {""}

\* The values the filter columns of the modelled tables hold.
FilterValues == {"firearm", "dishonesty", "2018", "2020", "KQED", "ABC7"}

\* toggleFilterDropdown, lines 417-423.
ToggleFilterDropdown(column) ==
    /\ ListRendered
    /\ activeFilterDropdown' = IF activeFilterDropdown = column THEN NULL ELSE column
    /\ UNCHANGED <<filters, sortField, sortDirection, currentPage, itemsPerPage>>
    /\ UNCHANGED <<storeVars, navVars, dashVars, view, searchVars, profileVars, rosterVars>>

\* onClick of an option of the open dropdown, lines 451-453, 493-495, 542-544.
SelectFilterOption(column, v) ==
    /\ ListRendered
    /\ activeFilterDropdown = column
    /\ v \in FilterOptions(column)
    /\ filters' = [filters EXCEPT ![FilterKey(column)] = IF @ = v THEN NULL ELSE v]
    /\ UNCHANGED <<activeFilterDropdown, sortField, sortDirection, currentPage, itemsPerPage>>
    /\ UNCHANGED <<storeVars, navVars, dashVars, view, searchVars, profileVars, rosterVars>>

\* "Clear filter" of the open dropdown, lines 470-473, 519-522, 561-564.
ClearFilter(column) ==
    /\ ListRendered
    /\ activeFilterDropdown = column
    /\ filters' = [filters EXCEPT ![FilterKey(column)] = NULL]
    /\ activeFilterDropdown' = NULL
    /\ UNCHANGED <<sortField, sortDirection, currentPage, itemsPerPage>>
    /\ UNCHANGED <<storeVars, navVars, dashVars, view, searchVars, profileVars, rosterVars>>

\* The remove button of an active-filter badge, lines 631, 646, 661.
RemoveFilterBadge(column) ==
    /\ ListRendered
    /\ filters[FilterKey(column)] # NULL
    /\ filters' = [filters EXCEPT ![FilterKey(column)] = NULL]
    /\ UNCHANGED <<activeFilterDropdown, sortField, sortDirection, currentPage, itemsPerPage>>
    /\ UNCHANGED <<storeVars, navVars, dashVars, view, searchVars, profileVars, rosterVars>>

\* clearAllFilters, lines 426-433; its button is rendered when a filter is
\* active (hasActiveFilters, lines 436-440 and 621).
ClearAllFilters ==
    /\ ListRendered
    /\ filters # NoFilters
    /\ filters' = NoFilters
    /\ activeFilterDropdown' = NULL
    /\ UNCHANGED <<sortField, sortDirection, currentPage, itemsPerPage>>
    /\ UNCHANGED <<storeVars, navVars, dashVars, view, searchVars, profileVars, rosterVars>>

\* onChange of the page-size select, lines 878-881.
ChangePageSize(s) ==
    /\ PagerRendered
    /\ s \in PageSizes /\ s # itemsPerPage
    /\ itemsPerPage' = s
    /\ currentPage' = 1
    /\ UNCHANGED <<filters, activeFilterDropdown, sortField, sortDirection>>
    /\ UNCHANGED <<storeVars, navVars, dashVars, view, searchVars, profileVars, rosterVars>>

\* The first-page button, lines 892-896.
FirstPage ==
    /\ PagerRendered
    /\ currentPage # 1
    /\ currentPage' = 1
    /\ UNCHANGED <<filters, activeFilterDropdown, sortField, sortDirection, itemsPerPage>>
    /\ UNCHANGED <<storeVars, navVars, dashVars, view, searchVars, profileVars, rosterVars>>

\* handlePrevPage, lines 327-331 (button lines 903-907).
handlePrevPage ==
    /\ PagerRendered
    /\ currentPage # 1
    /\ currentPage > 1
    /\ currentPage' = currentPage - 1
    /\ UNCHANGED <<filters, activeFilterDropdown, sortField, sortDirection, itemsPerPage>>
    /\ UNCHANGED <<storeVars, navVars, dashVars, view, searchVars, profileVars, rosterVars>>

\* handleNextPage, lines 321-325 (button lines 916-920).
handleNextPage ==
    /\ PagerRendered
    /\ ~(currentPage = totalPages \/ totalPages = 0)
    /\ currentPage < totalPages
    /\ currentPage' = currentPage + 1
    /\ UNCHANGED <<filters, activeFilterDropdown, sortField, sortDirection, itemsPerPage>>
    /\ UNCHANGED <<storeVars, navVars, dashVars, view, searchVars, profileVars, rosterVars>>

\* The last-page button, lines 926-930.
LastPage ==
    /\ PagerRendered
    /\ ~(currentPage = totalPages \/ totalPages = 0)
    /\ currentPage' = totalPages
    /\ UNCHANGED <<filters, activeFilterDropdown, sortField, sortDirection, itemsPerPage>>
    /\ UNCHANGED <<storeVars, navVars, dashVars, view, searchVars, profileVars, rosterVars>>

\* handleSort, lines 288-297.
handleSort(field) ==
    /\ ListRendered
    /\ IF sortField = field
       THEN /\ sortDirection' = IF sortDirection = "asc" THEN "desc" ELSE "asc"
            /\ sortField' = sortField
       ELSE /\ sortField' = field
            /\ sortDirection' = "asc"
    /\ UNCHANGED <<filters, activeFilterDropdown, currentPage, itemsPerPage>>
    /\ UNCHANGED <<storeVars, navVars, dashVars, view, searchVars, profileVars, rosterVars>>

-----------------------------------------------------------------------------
(* Browsing a long case list.                                              *)

MaxCases == 12
BrowseSizes == (MaxCases - 2)..MaxCases

CaseIds ==
    << "c001", "c002", "c003", "c004", "c005", "c006", "c007", "c008", "c009", "c010",
       "c011", "c012", "c013", "c014", "c015", "c016", "c017", "c018", "c019", "c020",
       "c021", "c022", "c023", "c024", "c025", "c026", "c027", "c028", "c029", "c030",
       "c031", "c032", "c033", "c034", "c035", "c036", "c037", "c038", "c039", "c040",
       "c041", "c042", "c043", "c044", "c045", "c046", "c047", "c048", "c049", "c050",
       "c051", "c052", "c053", "c054", "c055", "c056", "c057", "c058", "c059", "c060",
       "c061", "c062", "c063", "c064", "c065", "c066", "c067", "c068", "c069", "c070",
       "c071", "c072", "c073", "c074", "c075", "c076", "c077", "c078", "c079", "c080",
       "c081", "c082", "c083", "c084", "c085", "c086", "c087", "c088", "c089", "c090",
       "c091", "c092", "c093", "c094", "c095", "c096", "c097", "c098", "c099", "c100",
       "c101", "c102", "c103", "c104", "c105", "c106", "c107", "c108", "c109", "c110" >>

\* Row i of a document_metadata table with one row per incident.
BrowseRow(i) ==
    LET u == IF i % 2 = 1 THEN "u1" ELSE "u2"
        date == (i % 3) + 1
    IN  [uid |-> u, incident_id |-> CaseIds[i], post_uid |-> NULL,
         officer_name |-> OfficerName(u), sha1 |-> (IF i = 2 THEN "s1" ELSE "s2"),
         incident_type |-> (IF i % 2 = 1 THEN "firearm" ELSE "dishonesty"),
         incident_date |-> date, incident_year |-> YearOfDate(date),
         source |-> (IF i = 1 THEN "ABC7" ELSE "KQED")]

BrowseTable(n) == [i \in 1..n |-> BrowseRow(i)]

\* The rows of a table with one of the sha1s.
RowsWithSha1(table, sha1s) ==
    LET has(r) == r.sha1 \in sha1s
    IN  SelectSeq(table, has)

\* A CaseList that has loaded its cases, as the mount effect leaves it.
ListLoadedFresh ==
    /\ searchTerm = <<>> /\ textMatches = EmptyMap /\ calls = <<>> /\ matchesFrom = 0
    /\ rapidTyped = 0 /\ queries = NoQueries /\ metaQueries = 0

\* A CaseList that has loaded its cases and on which one search, for the term
\* abc, has run to its end (ChangeTerm, DebounceFire, TextSearchResults,
\* MetadataResults).
ListLoadedSearched ==
    /\ searchTerm = Term_abc
    /\ textMatches = BuildMatches(Term_abc, docText, RowsWithSha1(documents, {"s1"}))
    /\ calls = <<NewCall(Term_abc, "done", "matched")>> /\ matchesFrom = 1
    /\ rapidTyped = -1 /\ queries = [NoQueries EXCEPT ![Term_abc] = 1]
    /\ metaQueries = 1

InitBrowse ==
    /\ configured = TRUE
    /\ documents \in {BrowseTable(n) : n \in BrowseSizes}
    /\ posts = <<>> /\ docText = DocText
    /\ view = "list"
    /\ cases = ProcessedCases(documents)
    /\ loading = FALSE /\ searching = FALSE /\ error = NULL /\ timers = {}
    /\ (ListLoadedFresh \/ ListLoadedSearched)
    /\ filters = NoFilters /\ activeFilterDropdown = NULL
    /\ sortField = "incident_date" /\ sortDirection = "desc"
    /\ currentPage = 1 /\ itemsPerPage = 10
    /\ ProfileUnmounted /\ RosterIdle /\ PageShowsView

NextBrowse ==
    \/ \E t \in Terms : ChangeTerm(t)
    \/ \E column \in FilterColumns : ToggleFilterDropdown(column)
    \/ \E column \in FilterColumns, v \in FilterValues : SelectFilterOption(column, v)
    \/ \E column \in FilterColumns : ClearFilter(column)
    \/ \E column \in FilterColumns : RemoveFilterBadge(column)
    \/ ClearAllFilters
    \/ \E s \in PageSizes : ChangePageSize(s)
    \/ FirstPage
    \/ handlePrevPage
    \/ handleNextPage
    \/ LastPage

SpecBrowse == InitBrowse /\ [][NextBrowse]_vars

\* C16: in the case list, every change of the filter set (search term,
\* incident-type, year or source filter, clear-all) and every change of the
\* page size resets the current page to 1.
C16_FilterChangeResetsPage ==
    [][ (view = "list" /\ view' = "list"
           /\ (searchTerm' # searchTerm \/ filters' # filters \/ itemsPerPage' # itemsPerPage))
          => currentPage' = 1 ]_vars

\* out is a sub-list of list: its elements occur in list, in the same order.
RECURSIVE IsSubList(_, _)
IsSubList(out, list) ==
    IF Len(out) = 0 THEN TRUE
    ELSE IF Len(list) = 0 THEN FALSE
    ELSE IF out[1] = list[1] THEN IsSubList(Tail(out), Tail(list))
    ELSE IsSubList(out, Tail(list))

\* C19: filtering is idempotent: getFilteredCases applied to its own output,
\* with the same search term, text-match map and filter settings, returns that
\* output; and the output is a sub-list of the cases, in their order.
C19_FilteringIdempotent ==
    ListRendered =>
        /\ getFilteredCases(FilteredCases, searchTerm, textMatches, filters) = FilteredCases
        /\ IsSubList(FilteredCases, cases)

\* A search term, text matches and a discrete filter are all in effect and the
\* filter keeps some cases and drops others.
C19_Witness ==
    /\ ListRendered
    /\ searchTerm # <<>> /\ DOMAIN textMatches # {} /\ filters # NoFilters
    /\ Len(FilteredCases) > 0 /\ Len(FilteredCases) < Len(cases)

-----------------------------------------------------------------------------
(* Sorting the two lists: tables whose rows tie on the sort columns.       *)

MaxSortRows == 3

\* Rows of three officers and three incidents; incidents i1 and i3 agree on
\* type, date and source, officer u3 has no star number and no agency.
SortRow(u, inc) ==
    LET row == IF u = "u3" THEN [DocRow(u, inc, NULL) EXCEPT !.star_no = "",
                                                            !.officer_agency = ""]
               ELSE DocRow(u, inc, NULL)
    IN  IF inc = "i2"
        THEN [row EXCEPT !.incident_type = "dishonesty", !.incident_date = 1,
                         !.incident_year = "2018", !.source = "ABC7"]
        ELSE row

SortRows ==
    { SortRow("u1", "i1"), SortRow("u2", "i1"), SortRow("u3", "i2"),
      SortRow("u2", "i2"), SortRow("u1", "i3"), SortRow("u3", "i3") }

InitSort ==
    /\ configured = TRUE
    /\ documents \in SeqsUpTo(SortRows, MaxSortRows)
    /\ posts = <<>> /\ docText = <<>>
    /\ view = "roster"
    /\ ListUnmounted /\ ProfileUnmounted /\ RosterIdle /\ PageShowsView

NextSort ==
    \/ NextGroup
    \/ \E field \in CaseSortFields : handleSort(field)

SpecSort == InitSort /\ [][NextSort]_vars

Directions == {"asc", "desc"}

\* out is list sorted by field in direction dir, with ties in input order:
\* the same elements, no element before one that sorts strictly before it, and
\* for every key the elements with that key in the order they have in list.
IsStableSort(out, list, field, dir) ==
    /\ SameMultiset(out, list)
    /\ \A i, j \in 1..Len(out) :
          i < j => ~SortsBefore(field, dir, out[j][field], out[i][field])
    /\ \A k \in {list[i][field] : i \in 1..Len(list)} :
          LET hasKey(r) == r[field] = k
          IN  SelectSeq(out, hasKey) = SelectSeq(list, hasKey)

SortsWell(list, field, dir) ==
    LET out == orderByField(list, field, dir)
    IN  /\ IsStableSort(out, list, field, dir)
        /\ orderByField(out, field, dir) = out

-----------------------------------------------------------------------------
(* Paging through case lists of up to a hundred cases and more.            *)

MaxPageItems == 101

\* The list lengths at, just below and just above a multiple of a page size,
\* and the longest list.
PageItemCounts ==
    {n \in 0..MaxPageItems : n = MaxPageItems \/ \E s \in PageSizes : n % s \in {0, 1, s - 1}}

InitPages ==
    /\ configured = TRUE
    /\ documents \in {BrowseTable(n) : n \in PageItemCounts}
    /\ posts = <<>> /\ docText = DocText
    /\ view = "list"
    /\ cases = ProcessedCases(documents)
    /\ loading = FALSE /\ searching = FALSE /\ error = NULL /\ timers = {}
    /\ ListLoadedFresh
    /\ filters = NoFilters /\ activeFilterDropdown = NULL
    /\ sortField = "incident_date" /\ sortDirection = "desc"
    /\ currentPage = 1 /\ itemsPerPage = 10
    /\ ProfileUnmounted /\ RosterIdle /\ PageShowsView

NextPages ==
    \/ \E s \in PageSizes : ChangePageSize(s)
    \/ FirstPage
    \/ handlePrevPage
    \/ handleNextPage
    \/ LastPage

SpecPages == InitPages /\ [][NextPages]_vars

\* The pages 1..totalPages of a list at page size s.
PagesOf(list, s) == [p \in 1..totalPagesOf(list, s) |-> PageOf(list, s, p)]

\* totalPages bounds the item count, and the pages split the list: none is
\* empty, no two share an item, and one after the other they are the list.
PagesPartition(list, s) ==
    LET n == Len(list)
        pages == PagesOf(list, s)
    IN  /\ s * (Len(pages) - 1) < n /\ n <= s * Len(pages)
        /\ \A p \in 1..Len(pages) : Len(pages[p]) > 0
        /\ \A p, q \in 1..Len(pages) : p # q => Range(pages[p]) \cap Range(pages[q]) = {}
        /\ Concat(pages) = list

\* C20: for every item count n and page size s in {10, 25, 50, 100},
\* totalPages = ceil(n / s) satisfies s * (totalPages - 1) < n <= s * totalPages,
\* and the pages 1..totalPages (slice from (p-1)*s to p*s) are non-empty,
\* disjoint, and together contain every filtered item exactly once.
C20_PagesPartitionTheList ==
    ListRendered =>
        /\ \A s \in PageSizes : PagesPartition(FilteredAndSortedCases, s)
        /\ currentPage \in 1..totalPages => paginatedCases = PagesOf(FilteredAndSortedCases, itemsPerPage)[currentPage]

\* The user has paged to the last, partly filled page of a list of several pages.
C20_Witness ==
    /\ ListRendered /\ itemsPerPage = 25 /\ Len(FilteredAndSortedCases) = 51
    /\ currentPage = 3 /\ totalPages = 3 /\ Len(paginatedCases) = 1

-----------------------------------------------------------------------------
(* The free-text search over two documents: the metadata join and the      *)
(* snippets.                                                               *)

Term_ab_cd == <<"a", "b", " ", "c", "d">>
JoinTerms  == {Term_abc, Term_ab_cd}

\* Two single-page documents: s1 belongs to incident i1 (two metadata rows,
\* one per officer), s2 to incident i2.
JoinText ==
    << [sha1 |-> "s1", page_number |-> 1,
        page_content |-> <<"x", " ", "A", "B", "C", "D">>],
       [sha1 |-> "s2", page_number |-> 1,
        page_content |-> <<"a", "b", "c", " ", "a", "b", " ", "c", "d">>] >>

InitJoin ==
    /\ documents = CaseDocuments /\ posts = <<>> /\ docText = JoinText
    /\ configured = TRUE
    /\ view = "list"
    /\ cases = <<>> /\ searchTerm = <<>> /\ loading = TRUE /\ searching = FALSE
    /\ error = NULL /\ textMatches = EmptyMap /\ timers = {} /\ calls = <<>>
    /\ matchesFrom = 0 /\ rapidTyped = 0 /\ queries = [t \in JoinTerms |-> 0]
    /\ metaQueries = 0
    /\ filters = NoFilters /\ activeFilterDropdown = NULL
    /\ sortField = "incident_date" /\ sortDirection = "desc"
    /\ currentPage = 1 /\ itemsPerPage = 10
    /\ ProfileUnmounted /\ RosterIdle /\ PageShowsView

NextJoin ==
    \/ LoadInitialData
    \/ \E t \in JoinTerms : ChangeTerm(t)
    \/ \E t \in JoinTerms : DebounceFire(t)
    \/ \E i \in 1..MaxSearches, results \in SubLists(JoinText) : TextSearchResults(i, results)
    \/ \E i \in 1..MaxSearches : MetadataError(i)
    \/ \E i \in 1..MaxSearches : MetadataResults(i)

SpecJoin == InitJoin /\ [][NextJoin]_vars

\* The incidents that own a document: those of its rows in document_metadata.
OwnersOf(sha1) ==
    {documents[k].incident_id : k \in {n \in 1..Len(documents) : documents[n].sha1 = sha1}}

\* The page has a word containing the term, whatever the case of the letters.
PageContains(content, term) ==
    \E w \in Range(splitWs(content)) : includes(toLowerCase(w), toLowerCase(term))

\* Hit r is listed among the matches of incident id.
ListedUnder(matches, id, r) ==
    /\ id \in DOMAIN matches
    /\ \E k \in 1..Len(matches[id]) :
          matches[id][k].sha1 = r.sha1 /\ matches[id][k].pageNumber = r.page_number

\* The metadata join of invocation i has answered in this step.
JoinAnswered(i) ==
    /\ i \in 1..Len(calls) /\ calls[i].stage = "meta"
    /\ calls'[i].outcome = "matched"

\* C21: when the metadata join answers, every hit whose document has a
\* metadata row and whose page contains the term is listed in the matches of
\* the case that owns the document: the join drops no hit, also when a
\* document has several metadata rows or the hits come from several documents.
C21_JoinKeepsEveryHit ==
    [][ \A i \in 1..MaxSearches :
          JoinAnswered(i) =>
            \A j \in 1..Len(calls[i].hits) :
              LET r == calls[i].hits[j]
              IN  (OwnersOf(r.sha1) # {} /\ PageContains(r.page_content, calls[i].term))
                    => \A id \in OwnersOf(r.sha1) : ListedUnder(textMatches', id, r) ]_vars

\* The page answers the query built by searchPhrase (word:* & word:* ...):
\* every space-separated word of the term begins some word of the page.
PhraseMatches(content, term) ==
    \A piece \in Range(splitSpace(term)) :
        \E w \in Range(splitWs(content)) :
            /\ Len(piece) <= Len(w)
            /\ SubSeq(toLowerCase(w), 1, Len(piece)) = toLowerCase(piece)

\* The words from 5 before to 5 after the first word of the page that
\* contains the term, joined by spaces and followed by an ellipsis.
SnippetOf(content, term) ==
    LET words == splitWs(content)
        hit(n) == includes(toLowerCase(words[n]), toLowerCase(term))
        first == CHOOSE n \in 1..Len(words) : hit(n) /\ \A m \in 1..(n - 1) : ~hit(m)
    IN  joinSpace(SubSeq(words, Max2(1, first - 5), Min2(Len(words), first + 5)))
            \o <<".", ".", ".">>

\* C22: when the metadata join answers for hits of one document, every hit
\* whose page answers the query for the term (terms of several space-separated
\* words included) has a match entry, and the snippet of that entry is the
\* window of whole words from 5 before to 5 after the first word of the page
\* that contains the term.
C22_EveryHitHasItsSnippet ==
    [][ \A i \in 1..MaxSearches :
          (JoinAnswered(i) /\ Cardinality({calls[i].hits[j].sha1 : j \in 1..Len(calls[i].hits)}) = 1)
            => \A j \in 1..Len(calls[i].hits) :
                 LET r == calls[i].hits[j]
                 IN  (OwnersOf(r.sha1) # {} /\ PhraseMatches(r.page_content, calls[i].term))
                       => \E id \in DOMAIN textMatches' : \E k \in 1..Len(textMatches'[id]) :
                            /\ textMatches'[id][k].sha1 = r.sha1
                            /\ textMatches'[id][k].pageNumber = r.page_number
                            /\ textMatches'[id][k].text = SnippetOf(r.page_content, calls[i].term) ]_vars

-----------------------------------------------------------------------------
(* fetchAllRecords (part_003:40-77): the offset loop, one step per await.  *)
(* It runs as operation "fetchAll": fetched holds allData (docs) and the   *)
(* loop counter (page); opPc is "page" while a page query is in flight,    *)
(* "done" after the return and "failed" after the throw.  The call is made *)
(* without a filter.                                                       *)

MaxFetchRows == 2001

\* Table sizes: around the multiples of the page size, and every hundred.
FetchCounts ==
    {n \in 0..MaxFetchRows :
        n = MaxFetchRows \/ n % pageSize \in {0, 1, pageSize - 1} \/ n % 100 = 0}

\* A table of n rows, each row standing for itself.
NumberedTable(n) == [i \in 1..n |-> i]

\* .range(page * pageSize, (page + 1) * pageSize - 1), lines 53-54: the rows at
\* the offsets of the range that exist.
RangeOf(table, page) ==
    SubSeq(table, page * pageSize + 1, Min2((page + 1) * pageSize, Len(table)))

\* A loop that goes on while pages are non-empty.
HasMoreWhileNonEmpty(data) == Len(data) > 0

\* Lines 65-67: hasMore stays true unless the page is short.
HasMore(data) == ~(Len(data) < pageSize)

\* The call, to its first await (lines 45-61).
FetchAllStart ==
    /\ view = "roster" /\ op = "none"
    /\ op' = "fetchAll" /\ opPc' = "page"
    /\ fetched' = [docs |-> <<>>, posts |-> <<>>, page |-> 0]
    /\ UNCHANGED <<opUid, officers, selectedOfficer, offError>>
    /\ UNCHANGED <<storeVars, navVars, dashVars, view, listVars, profileVars>>

\* A page query answers (lines 61-76): the rows are appended and page is
\* incremented; the loop issues the next query or the function returns.
FetchAllPage ==
    /\ op = "fetchAll" /\ opPc = "page"
    /\ LET data == RangeOf(documents, fetched.page)
       IN  /\ fetched' = [fetched EXCEPT !.docs = @ \o data, !.page = @ + 1]
           /\ opPc' = IF HasMore(data) THEN "page" ELSE "done"
    /\ UNCHANGED <<op, opUid, officers, selectedOfficer, offError>>
    /\ UNCHANGED <<storeVars, navVars, dashVars, view, listVars, profileVars>>

\* A page query fails (line 63): the function throws; allData is dropped with
\* the call.
FetchAllError ==
    /\ op = "fetchAll" /\ opPc = "page"
    /\ opPc' = "failed"
    /\ fetched' = [fetched EXCEPT !.docs = <<>>]
    /\ UNCHANGED <<op, opUid, officers, selectedOfficer, offError>>
    /\ UNCHANGED <<storeVars, navVars, dashVars, view, listVars, profileVars>>

InitFetch ==
    /\ configured = TRUE
    /\ documents \in {NumberedTable(n) : n \in FetchCounts}
    /\ posts = <<>> /\ docText = <<>>
    /\ view = "roster"
    /\ ListUnmounted /\ ProfileUnmounted /\ RosterIdle /\ PageShowsView

NextFetch ==
    \/ FetchAllStart
    \/ FetchAllPage
    \/ FetchAllError

\* Every awaited query is answered, with rows or with an error.
SpecFetch == InitFetch /\ [][NextFetch]_vars /\ WF_vars(NextFetch)

FetchReturned == op = "fetchAll" /\ opPc = "done"
FetchThrew    == op = "fetchAll" /\ opPc = "failed"

\* C23: fetchAllRecords on a table of N rows terminates; when it returns, it
\* returns all N rows exactly once in offset order after floor(N/1000)+1
\* queries, every page but the last one full; when a page query fails it
\* throws and returns no rows.
C23_FetchAllReturnsTheTable ==
    /\ [](FetchReturned =>
            /\ fetched.docs = documents
            /\ fetched.page = (Len(documents) \div pageSize) + 1)
    /\ [](op = "fetchAll" => fetched.page <= (Len(documents) \div pageSize) + 1)
    /\ [](FetchThrew => fetched.docs = <<>>)
    /\ <>(FetchReturned \/ FetchThrew)

\* A table of two full pages has been returned after three queries.
C23_Witness ==
    /\ FetchReturned /\ Len(documents) = 2 * pageSize /\ fetched.page = 3
    /\ Len(fetched.docs) = 2 * pageSize

-----------------------------------------------------------------------------
(* The Dashboard: its load effect computes the recent-incidents list from  *)
(* the rows of document_metadata (Dashboard.tsx:82-200).                   *)

MaxDashIncidents == 6   \* incidents in the table of the dashboard checks

\* Row of officer u in incident i; incident i has incident date i, so that a
\* later incident has a larger number.
DashRow(i, u) == [DocRow(u, CaseIds[i], NULL) EXCEPT !.incident_date = i]

\* One row per incident, and a second officer's row for the first incident.
DashRows == {DashRow(i, "u1") : i \in 1..MaxDashIncidents} \cup {DashRow(1, "u2")}

\* The orders in which the datastore may return a set of rows.
RECURSIVE Orderings(_)
Orderings(S) ==
    IF S = {} THEN {<<>>}
    ELSE UNION {{<<x>> \o rest : rest \in Orderings(S \ {x})} : x \in S}

\* _.uniqBy(rows, field): the first row of every value of the field, in order.
uniqBy(rows, field) ==
    LET first(i) == \A j \in 1..(i - 1) : rows[j][field] # rows[i][field]
        kept     == {i \in 1..Len(rows) : first(i)}
    IN  RowsAt(rows, kept)

\* Step 6 of loadData, lines 176-191: the incident of every row.
AllIncidents(rows) ==
    [i \in 1..Len(rows) |->
        [incident_id |-> rows[i].incident_id, incident_type |-> rows[i].incident_type,
         incident_date |-> rows[i].incident_date, source |-> rows[i].source,
         officer_name |-> rows[i].officer_name, uid |-> rows[i].uid,
         post_uid |-> rows[i].post_uid, incident_uid |-> rows[i].incident_id]]

\* Lines 194-195: _.orderBy without an order argument sorts ascending.
RecentIncidentsList(rows) ==
    LET sortedIncidents == orderByField(AllIncidents(rows), "incident_date", "asc")
    IN  slice(uniqBy(sortedIncidents, "incident_id"), 0, 5)

\* Steps 2-3 of loadData, lines 96-120: every post, when some row carries a
\* post_uid.
DashPostRecords(rows, table) == IF PostUidsOf(rows) # {} THEN table ELSE <<>>

\* The load effect of the Dashboard, to its end (lines 82-252): without
\* credentials, or when a query fails, the catch leaves the lists empty.
DashboardLoad ==
    /\ view = "dashboard" /\ op = "none"
    /\ op' = "dashboard"
    /\ \E ok \in BOOLEAN :
          IF configured /\ ok
          THEN /\ opPc' = "done"
               /\ officers' = ProcessedOfficers(documents,
                                                 DashPostRecords(documents, posts))
               /\ recentIncidents' = RecentIncidentsList(documents)
               /\ offError' = offError
          ELSE /\ opPc' = "failed"
               /\ officers' = officers
               /\ recentIncidents' = recentIncidents
               /\ offError' = "Failed to load data"
    /\ UNCHANGED <<opUid, fetched, selectedOfficer>>
    /\ UNCHANGED <<storeVars, navVars, view, listVars, profileVars>>

InitDash ==
    /\ documents \in Orderings(DashRows)
    /\ posts = <<>> /\ docText = <<>>
    /\ configured \in BOOLEAN
    /\ view = "dashboard"
    /\ ListUnmounted /\ ProfileUnmounted /\ RosterIdle /\ PageShowsView

NextDash == DashboardLoad

SpecDash == InitDash /\ [][NextDash]_vars

DashLoaded == op = "dashboard" /\ opPc = "done"

\* The incidents of the table that have at most k incidents dated later.
LatestIncidents(rows, k) ==
    {rows[i].incident_id : i \in
        {i \in 1..Len(rows) :
            Cardinality({rows[j].incident_id : j \in
                {j \in 1..Len(rows) : rows[j].incident_date > rows[i].incident_date}}) < k}}

\* C24: the recent-incidents list of a loaded dashboard holds the 5 distinct
\* incidents with the latest incident dates, the most recent first.
C24_RecentIncidentsAreLatest ==
    DashLoaded =>
        /\ {recentIncidents[i].incident_id : i \in 1..Len(recentIncidents)}
              = LatestIncidents(documents, 5)
        /\ Len(recentIncidents) = Cardinality(LatestIncidents(documents, 5))
        /\ \A i \in 1..(Len(recentIncidents) - 1) :
              recentIncidents[i].incident_date >= recentIncidents[i + 1].incident_date

-----------------------------------------------------------------------------
(* The page (page.tsx): its three state hooks under the user's selections, *)
(* Back presses, tab changes and the two asynchronous drill-downs.  The    *)
(* specification follows the page's own state; selectedOfficer holds the   *)
(* uid of the selected officer.  The state of the components the page      *)
(* mounts is the subject of the specifications above and stays as it is at *)
(* Init.                                                                   *)

MaxDrills == 2   \* drill-down invocations

\* The arguments of the drill-downs: a uid and an incident_id the table holds
\* and one of each that it does not hold.
DrillUids      == {"u1", "u9"}
DrillIncidents == {"i2", "i9"}

\* The incidents of the sample table.
Incidents == {"i1", "i2"}

\* The component the page renders, lines 122-170.
RenderedView(officer, case, tab) ==
    IF officer # NULL THEN "officer"
    ELSE IF case # NULL THEN "profile"
    ELSE IF tab = "officers" THEN "roster" ELSE "list"

\* A step of the page: the next render shows the component of the new state.
PageStep ==
    /\ view' = RenderedView(selectedOfficer', selectedCase', activeView')
    /\ UNCHANGED <<op, opPc, opUid, fetched, officers, offError>>
    /\ UNCHANGED <<storeVars, dashVars, listVars, profileVars>>

\* handleOfficerSelect (lines 31-34), called by the displayed OfficerList.
handleOfficerSelect(officer) ==
    /\ view = "roster" /\ officer \in UidsIn(documents)
    /\ selectedOfficer' = officer /\ selectedCase' = NULL
    /\ UNCHANGED <<activeView, drills>>
    /\ PageStep

\* handleCaseSelect (lines 36-39), called by the displayed CaseList.
handleCaseSelect(caseData) ==
    /\ view = "list" /\ caseData \in IncidentsIn(documents)
    /\ selectedCase' = caseData /\ selectedOfficer' = NULL
    /\ UNCHANGED <<activeView, drills>>
    /\ PageStep

\* onBack of the OfficerProfile (line 126).
BackFromOfficer ==
    /\ view = "officer"
    /\ selectedOfficer' = NULL
    /\ UNCHANGED <<activeView, selectedCase, drills>>
    /\ PageStep

\* onBack of the CaseProfile (line 136).
BackFromCase ==
    /\ view = "profile"
    /\ selectedCase' = NULL
    /\ UNCHANGED <<activeView, selectedOfficer, drills>>
    /\ PageStep

\* Tabs onValueChange (line 154).
setActiveView(tab) ==
    /\ view \in {"roster", "list"}
    /\ activeView' = tab
    /\ UNCHANGED <<selectedOfficer, selectedCase, drills>>
    /\ PageStep

\* A drill-down runs to its await (lines 42-49, 80-87): initSupabase throws
\* without credentials and the catch only logs; otherwise the query is issued.
StartDrill(handler, arg, outcome) ==
    /\ Len(drills) < MaxDrills
    /\ drills' = IF configured
                 THEN Append(drills, [handler |-> handler, arg |-> arg,
                                      outcome |-> outcome, pc |-> "query"])
                 ELSE drills
    /\ UNCHANGED <<activeView, selectedOfficer, selectedCase>>
    /\ PageStep

\* onOfficerSelect of the displayed CaseProfile (line 137).
handleOfficerFromCase(uid, outcome) ==
    /\ view = "profile"
    /\ StartDrill("officer", uid, outcome)

\* onCaseSelect of the displayed OfficerProfile (line 127).
handleCaseFromOfficer(incidentId, outcome) ==
    /\ view = "officer"
    /\ StartDrill("case", incidentId, outcome)

\* The rows the query of a drill-down matches: .eq('uid', uid) (line 49) or
\* .eq('incident_id', incidentId) (line 87).
DrillRows(drill) ==
    GroupOf(documents, IF drill.handler = "officer" THEN "uid" ELSE "incident_id", drill.arg)

\* A drill-down that goes on whatever the query returned.
DrillFoundAlways(rows) == TRUE

\* Lines 53-56 and 91-94: without rows the handler logs and returns.
DrillFound(rows) == Len(rows) # 0

\* The query of drill-down i fails (lines 51, 89): the catch only logs.
DrillFailed(i) ==
    /\ i \in 1..Len(drills) /\ drills[i].pc = "query" /\ drills[i].outcome = "error"
    /\ drills' = [drills EXCEPT ![i].pc = "failed"]
    /\ UNCHANGED <<activeView, selectedOfficer, selectedCase>>
    /\ PageStep

\* An answer of the officer drill-down that shows the officer and leaves the
\* selected case as it is.
OfficerFromCaseKeepingCase(i) ==
    /\ i \in 1..Len(drills) /\ drills[i].pc = "query" /\ drills[i].outcome = "rows"
    /\ drills[i].handler = "officer"
    /\ IF DrillFound(DrillRows(drills[i]))
       THEN /\ drills' = [drills EXCEPT ![i].pc = "shown"]
            /\ activeView' = "officers"
            /\ selectedOfficer' = drills[i].arg
            /\ selectedCase' = selectedCase
       ELSE /\ drills' = [drills EXCEPT ![i].pc = "empty"]
            /\ UNCHANGED <<activeView, selectedOfficer, selectedCase>>
    /\ PageStep

\* The rows of handleOfficerFromCase arrive (lines 53-72).
OfficerFromCaseAnswered(i) ==
    /\ i \in 1..Len(drills) /\ drills[i].pc = "query" /\ drills[i].outcome = "rows"
    /\ drills[i].handler = "officer"
    /\ IF DrillFound(DrillRows(drills[i]))
       THEN /\ drills' = [drills EXCEPT ![i].pc = "shown"]
            /\ activeView' = "officers"
            /\ selectedCase' = NULL
            /\ selectedOfficer' = drills[i].arg
       ELSE /\ drills' = [drills EXCEPT ![i].pc = "empty"]
            /\ UNCHANGED <<activeView, selectedOfficer, selectedCase>>
    /\ PageStep

\* The rows of handleCaseFromOfficer arrive (lines 91-115).
CaseFromOfficerAnswered(i) ==
    /\ i \in 1..Len(drills) /\ drills[i].pc = "query" /\ drills[i].outcome = "rows"
    /\ drills[i].handler = "case"
    /\ IF DrillFound(DrillRows(drills[i]))
       THEN /\ drills' = [drills EXCEPT ![i].pc = "shown"]
            /\ activeView' = "cases"
            /\ selectedOfficer' = NULL
            /\ selectedCase' = drills[i].arg
       ELSE /\ drills' = [drills EXCEPT ![i].pc = "empty"]
            /\ UNCHANGED <<activeView, selectedOfficer, selectedCase>>
    /\ PageStep

InitNav ==
    /\ documents = CaseDocuments
    /\ posts = <<>> /\ docText = <<>>
    /\ configured \in BOOLEAN
    /\ view = "roster"
    /\ ListUnmounted /\ ProfileUnmounted /\ RosterIdle /\ PageShowsView

NextNav ==
    \/ \E officer \in Uids : handleOfficerSelect(officer)
    \/ \E caseData \in Incidents : handleCaseSelect(caseData)
    \/ BackFromOfficer
    \/ BackFromCase
    \/ \E tab \in {"officers", "cases"} : setActiveView(tab)
    \/ \E uid \in DrillUids, outcome \in {"rows", "error"} :
          handleOfficerFromCase(uid, outcome)
    \/ \E incidentId \in DrillIncidents, outcome \in {"rows", "error"} :
          handleCaseFromOfficer(incidentId, outcome)
    \/ \E i \in 1..MaxDrills : DrillFailed(i)
    \/ \E i \in 1..MaxDrills : OfficerFromCaseAnswered(i)
    \/ \E i \in 1..MaxDrills : CaseFromOfficerAnswered(i)

SpecNav == InitNav /\ [][NextNav]_vars

\* C25: selectedOfficer and selectedCase are never both non-null.
C25_AtMostOneSelection == ~(selectedOfficer # NULL /\ selectedCase # NULL)

\* The answer of an officer drill-down has arrived on top of a case that a
\* later case drill-down had selected, and has replaced that selection.
C25_Witness ==
    /\ Len(drills) = 2
    /\ drills[1].handler = "officer" /\ drills[1].pc = "shown"
    /\ drills[2].handler = "case" /\ drills[2].pc = "shown"
    /\ selectedOfficer = drills[1].arg /\ selectedCase = NULL
    /\ activeView = "officers"

\* Drill-down i leaves its await in this step.
DrillLeaves(i) == i \in 1..Len(drills) /\ drills[i].pc = "query" /\ drills'[i].pc # "query"

\* C29: a drill-down whose query fails or returns no rows leaves activeView,
\* selectedOfficer and selectedCase unchanged, as does the start of a
\* drill-down; one that succeeds sets the active view to the target tab,
\* clears the other selection and sets its own.
C29_DrillDownFrame ==
    [][ /\ drills' # drills /\ Len(drills') > Len(drills)
            => UNCHANGED <<activeView, selectedOfficer, selectedCase>>
        /\ \A i \in 1..MaxDrills : DrillLeaves(i) =>
              IF drills[i].outcome = "error" \/ Len(DrillRows(drills[i])) = 0
              THEN UNCHANGED <<activeView, selectedOfficer, selectedCase>>
              ELSE IF drills[i].handler = "officer"
              THEN /\ activeView' = "officers" /\ selectedCase' = NULL
                   /\ selectedOfficer' = drills[i].arg
              ELSE /\ activeView' = "cases" /\ selectedOfficer' = NULL
                   /\ selectedCase' = drills[i].arg ]_vars

\* A case drill-down has shown its case, another has failed and a third has
\* found no rows.
C29_Witness ==
    /\ \E i \in 1..Len(drills) :
          /\ drills[i].handler = "case" /\ drills[i].pc = "shown"
          /\ selectedCase = drills[i].arg /\ selectedOfficer = NULL /\ activeView = "cases"
    /\ \E i \in 1..Len(drills) : drills[i].pc \in {"failed", "empty"}

-----------------------------------------------------------------------------
(* The case list's indicators and error state under searches.              *)

\* The searchDocuments invocations whose text-search query is in flight, and
\* those that have not returned yet.
TextQueriesInFlight == {i \in 1..Len(calls) : calls[i].stage = "text"}
SearchesRunning     == {i \in 1..Len(calls) : calls[i].stage # "done"}

\* C26: in the case list, searching is true whenever a text-search query of
\* searchDocuments is in flight, and false once no search is running.
C26_SearchingWhileInFlight ==
    view = "list" =>
        /\ TextQueriesInFlight # {} => searching
        /\ SearchesRunning = {} => ~searching

\* C27: the current page of the case list stays within 1..max(1, totalPages),
\* so the displayed page is empty only when the filtered list is empty.
C27_CurrentPageInRange ==
    view = "list" =>
        /\ currentPage \in 1..Max2(1, totalPages)
        /\ paginatedCases = <<>> => FilteredAndSortedCases = <<>>

\* The searchDocuments invocations of the mounted list that ended in the catch
\* block, and those that ended with an answer.
SearchesFailed   == {i \in 1..Len(calls) : calls[i].outcome \in {"textError", "metaError"}}
SearchesAnswered == {i \in 1..Len(calls) : calls[i].outcome \in {"empty", "matched"}}

\* C28: after a failed text search the loaded cases are still displayed, and
\* a search that ends with an answer, or the clearing of the term, leaves no
\* error state.
C28_SearchErrorKeepsList ==
    /\ [](view = "list" /\ SearchesFailed # {} /\ ~loading => ListRendered)
    /\ [][ view = "list" /\ view' = "list"
           /\ (SearchesAnswered' # SearchesAnswered \/ (searchTerm # <<>> /\ searchTerm' = <<>>))
              => error' = NULL ]_vars

-----------------------------------------------------------------------------
(* The two builders of an officer aggregate, over the same datastore.      *)

\* The aggregate handleOfficerFromCase builds for uid from the tables.
DrillOfficerOf(uid) ==
    LET docs == GroupOf(documents, "uid", uid)
    IN  DrillOfficer(uid, docs, PostsByName(posts, docs[1].officer_name))

\* The aggregate the roster load builds for uid from the tables.
RosterOfficerOf(uid) ==
    LET all == ProcessedOfficers(documents,
                                 RosterPostRecords(posts, PostUidsOf(documents)))
    IN  all[CHOOSE j \in 1..Len(all) : all[j].uid = uid]

AggregatesAgree(a, b) ==
    /\ a.incidentCount = b.incidentCount
    /\ Range(a.postHistory) = Range(b.postHistory)
    /\ a.currentPost = b.currentPost
    /\ a.serviceStartDate = b.serviceStartDate

\* C30: for the same datastore contents the aggregate of the roster load and
\* the one of the drill-down from a case agree on incidentCount, postHistory
\* (as a set), currentPost and serviceStartDate, for every officer.
C30_RosterAndDrillAgree ==
    /\ \A o \in RosterAggregates : AggregatesAgree(o, DrillOfficerOf(o.uid))
    /\ \A o \in DrillAggregates : AggregatesAgree(RosterOfficerOf(o.uid), o)

====
